---- MODULE Spec2Model ----
(***************************************************************************)
(* Model of the browser-agent desktop worker:                              *)
(*   - BrowserAgent._postprocess_snapshot_text (agent/browser_agent.py):   *)
(*     the snapshot compaction pipeline and its delta engine, with the     *)
(*     four _last_snapshot_* fields as session memory;                     *)
(*   - _wrap_tool_with_hard_timeout (agent/mcp_client.py): the timeout     *)
(*     guarded tool invocation.                                            *)
(*                                                                         *)
(* A raw text is a sequence of symbols: single characters and keyword      *)
(* symbols ("tab", "modal", ...), each standing for that word.  The        *)
(* classifier looks for keyword symbols; the selected text is spelled out  *)
(* character by character (Spell) before it is measured, truncated,        *)
(* hashed and diffed, as are the literal strings the pipeline emits.       *)
(***************************************************************************)
EXTENDS Integers, Sequences, FiniteSets, TLC

VARIABLES
    mem,        \* BrowserAgent._last_snapshot_{text,hash,filtered_text,filtered_hash}
    call,       \* the most recent pipeline call: arguments, returned value, history flags
    before,     \* history: the memory the most recent pipeline call found, where recorded
    agent,      \* routes.agent_instance and the BrowserAgent it names: existence, connection
    orphan,     \* the snapshot memory of the BrowserAgent that agent_instance named before
    reqs,       \* the call_tool calls: position, arguments, agent held, response
    issued,     \* history: the calls in the order they reached tool.ainvoke
    updated,    \* history: the calls in the order they wrote snapshot memory
    wpc,        \* _invoke_with_timeout: position of the wrapper coroutine
    tool,       \* the wrapped tool of the invocation: [name, timeout]
    task,       \* state of the asyncio.Task running tool.ainvoke
    clock,      \* seconds elapsed since asyncio.wait started
    cancels,    \* number of task.cancel() requests made by the wrapper
    honours,    \* whether the operation ends when cancellation is requested
    cb,         \* _swallow_task_result: not run / returned / raised
    ret,        \* what the wrapper's caller received
    loopErrs    \* exceptions that reached the event loop's exception handler

snapVars == <<mem, call>>
toolVars == <<wpc, tool, task, clock, cancels, honours, cb, ret, loopErrs>>
apiVars == <<agent, orphan, reqs, issued, updated>>
vars == <<mem, call, before, wpc, tool, task, clock, cancels, honours, cb, ret, loopErrs,
          agent, orphan, reqs, issued, updated>>

(***************************************************************************)
(* Bounds of the model.                                                    *)
(***************************************************************************)
MaxLen == 4        \* longest raw text of the single-call specification
MaxSessLines == 3  \* most lines of a raw text of the session specification

(***************************************************************************)
(* Python values.                                                          *)
(***************************************************************************)
None == <<>>
Some(x) == <<x>>

Min(a, b) == IF a < b THEN a ELSE b
Max(a, b) == IF a > b THEN a ELSE b

\* s[:n]
Take(s, n) == SubSeq(s, 1, Min(n, Len(s)))

\* s[i], 0-based as in the source
At(s, i) == s[i + 1]

\* range(a, b)
Range(a, b) == {i \in a..(b - 1) : TRUE}

\* k in line, for a keyword symbol k
Contains(line, k) == \E i \in 1..Len(line) : line[i] = k

\* All texts over an alphabet, up to a length.
TextsOver(alphabet, n) == UNION {[1..k -> alphabet] : k \in 0..n}

(***************************************************************************)
(* str.splitlines() and "\n".join().                                       *)
(***************************************************************************)
LineSeps == {"\n", "\r"}

\* a line boundary starts at t[i]: "\n", "\r", or the "\r" of "\r\n"
BoundaryAt(t, i) ==
    /\ t[i] \in LineSeps
    /\ ~(t[i] = "\n" /\ i > 1 /\ t[i - 1] = "\r")

\* the index after the boundary that starts at t[i]
AfterBoundary(t, i) ==
    IF t[i] = "\r" /\ i + 1 <= Len(t) /\ t[i + 1] = "\n" THEN i + 2 ELSE i + 1

RECURSIVE SortedIn(_, _, _)
\* the members of S in lo..hi, in increasing order
SortedIn(S, lo, hi) ==
    IF lo > hi THEN <<>>
    ELSE IF lo = hi THEN (IF lo \in S THEN <<lo>> ELSE <<>>)
    ELSE SortedIn(S, lo, (lo + hi) \div 2) \o SortedIn(S, ((lo + hi) \div 2) + 1, hi)

\* the boundaries of t, in order
Boundaries(t) == SortedIn({i \in 1..Len(t) : BoundaryAt(t, i)}, 1, Len(t))

\* where the line that ends at the k-th boundary starts
LineStart(t, bs, k) == IF k = 1 THEN 1 ELSE AfterBoundary(t, bs[k - 1])

\* the lines that end at a boundary
ClosedLines(t, bs) ==
    [k \in 1..Len(bs) |-> SubSeq(t, LineStart(t, bs, k), bs[k] - 1)]

\* the line after the last boundary, when it is not empty
LastLine(t, bs) ==
    IF LineStart(t, bs, Len(bs) + 1) <= Len(t)
    THEN <<SubSeq(t, LineStart(t, bs, Len(bs) + 1), Len(t))>>
    ELSE <<>>

SplitAt(t, bs) == ClosedLines(t, bs) \o LastLine(t, bs)

SplitLinesKeepLast(t) ==
    \* a splitlines that reports a final empty line after a trailing separator
    IF t # <<>> /\ t[Len(t)] \in LineSeps
    THEN SplitAt(t, Boundaries(t)) \o << <<>> >>
    ELSE SplitAt(t, Boundaries(t))

SplitLines(t) == SplitAt(t, Boundaries(t))

RECURSIVE JoinLines(_)
JoinLines(ls) ==
    IF ls = <<>> THEN <<>>
    ELSE IF Len(ls) = 1 THEN ls[1]
    ELSE JoinLines(SubSeq(ls, 1, Len(ls) \div 2)) \o <<"\n">>
         \o JoinLines(SubSeq(ls, (Len(ls) \div 2) + 1, Len(ls)))

(***************************************************************************)
(* sha256(s.encode("utf-8", errors="ignore")).hexdigest(): the encoder     *)
(* drops lone surrogates; the digest is taken to be collision free.        *)
(***************************************************************************)
Surrogates == {"\\ud800"}

Utf8Ignore(t) == SelectSeq(t, LAMBDA c : c \notin Surrogates)

Sha256Hex(t) == <<"sha256", Utf8Ignore(t)>>

(***************************************************************************)
(* Line Classifier (browser_agent.py 75-125).                              *)
(***************************************************************************)
Whitespace == {" ", "\t"}

\* str.lower(), on symbols
Lower(c) ==
    CASE c = "A"       -> "a"
      [] c = "TAB"     -> "tab"
      [] c = "MODAL"   -> "modal"
      [] c = "DIALOG"  -> "dialog"
      [] c = "HEADING" -> "heading"
      [] c = "NAV"     -> "nav"
      [] OTHER         -> c

LowerText(line) == [i \in 1..Len(line) |-> Lower(line[i])]

RECURSIVE LStrip(_)
LStrip(line) ==
    IF line # <<>> /\ Head(line) \in Whitespace \cup LineSeps
    THEN LStrip(Tail(line)) ELSE line

RECURSIVE RStrip(_)
RStrip(line) ==
    IF line # <<>> /\ line[Len(line)] \in Whitespace \cup LineSeps
    THEN RStrip(SubSeq(line, 1, Len(line) - 1)) ELSE line

Strip(line) == RStrip(LStrip(line))

\* "kw1" in l or "kw2" in l ...; a symbol whose word contains the keyword counts.
HasAny(l, kws) == \E k \in kws : Contains(l, k)

StrongKinds == {"heading", "dialog"}

\* lines 77-99, for the stripped and lowered line l
MarkerKindOf(l) ==
    IF l = <<>> THEN ""
    ELSE IF HasAny(l, {"heading"}) THEN "heading"
    ELSE IF HasAny(l, {"dialog", "modal"}) THEN "dialog"
    ELSE IF HasAny(l, {"header", "banner"}) THEN "header"
    ELSE IF HasAny(l, {"navigation", "nav"}) THEN "navigation"
    ELSE IF HasAny(l, {"main"}) THEN "main"
    ELSE IF HasAny(l, {"footer", "contentinfo"}) THEN "footer"
    ELSE IF HasAny(l, {"tablist"}) THEN "tablist"
    ELSE IF HasAny(l, {"toolbar"}) THEN "toolbar"
    ELSE ""

section_marker_kind(line) == MarkerKindOf(LowerText(Strip(line)))

TitleMax == 160

section_title(line) == Take(Strip(line), TitleMax)

\* "tablist" contains "tab".
InteractiveKeywords ==
    {"button", "link", "textbox", "input", "checkbox", "radio", "combobox",
     "select", "menu", "tab", "dialog", "option", "tablist"}

is_interactive_line(line) == HasAny(LowerText(line), InteractiveKeywords)

(***************************************************************************)
(* Sectioner (browser_agent.py 127-163).                                   *)
(***************************************************************************)
StrongWindow == 20
MarkerWindow == 6

SectionerInit ==
    [starts |-> <<0>>, titles |-> (0 :> <<>>), kinds |-> (0 :> ""),
     last_strong_heading_i |-> None, last_marker_i |-> None]

\* a suppression that looks at the last heading only
SuppressedByHeadingOnly(kind, i, st) ==
    /\ kind \notin StrongKinds
    /\ st.last_strong_heading_i # None
    /\ i - st.last_strong_heading_i[1] <= StrongWindow

\* lines 144-148: a weak marker close to a heading or to the last marker
Suppressed(kind, i, st) ==
    /\ kind \notin StrongKinds
    /\ \/ /\ st.last_strong_heading_i # None
          /\ i - st.last_strong_heading_i[1] <= StrongWindow
       \/ /\ st.last_marker_i # None
          /\ i - st.last_marker_i[1] <= MarkerWindow

\* an iteration that never records a heading
SectionStepNoPointer(line, kind, i, st) ==
    IF i = 0 \/ kind = "" \/ Suppressed(kind, i, st)
    THEN st
    ELSE [starts |-> Append(st.starts, i),
          titles |-> (i :> section_title(line)) @@ st.titles,
          kinds  |-> (i :> kind) @@ st.kinds,
          last_strong_heading_i |-> st.last_strong_heading_i,
          last_marker_i |-> Some(i)]

\* one iteration of the loop of lines 133-155, for line i of kind `kind`
SectionStep(line, kind, i, st) ==
    IF i = 0 \/ kind = "" \/ Suppressed(kind, i, st)
    THEN st
    ELSE [starts |-> Append(st.starts, i),
          titles |-> (i :> section_title(line)) @@ st.titles,
          kinds  |-> (i :> kind) @@ st.kinds,
          last_strong_heading_i |->
              IF kind = "heading" THEN Some(i) ELSE st.last_strong_heading_i,
          last_marker_i |-> Some(i)]

\* the loop of lines 133-155, from index i on
RECURSIVE SectionScan(_, _, _)
SectionScan(lines, i, st) ==
    IF i >= Len(lines) THEN st
    ELSE SectionScan(lines, i + 1,
             SectionStep(At(lines, i), section_marker_kind(At(lines, i)), i, st))

SeqToSet(s) == {s[i] : i \in 1..Len(s)}

\* min(S) and max(S) for a finite non-empty set of integers
SmallestOf(S) == CHOOSE x \in S : \A y \in S : x <= y

LargestOf(S) == CHOOSE x \in S : \A y \in S : y <= x

\* sorted(S) for a finite set of integers
Sorted(S) == IF S = {} THEN <<>> ELSE SortedIn(S, SmallestOf(S), LargestOf(S))

\* dict.get(key, default)
DictGet(d, key, default) == IF key \in DOMAIN d THEN d[key] ELSE default

\* tuples whose sections all reach to the end of the text
SectionTuplesToEnd(lines, st, section_starts) ==
    [idx \in 1..Len(section_starts) |->
        [start |-> section_starts[idx],
         end   |-> Len(lines),
         title |-> DictGet(st.titles, section_starts[idx], <<>>),
         kind  |-> DictGet(st.kinds, section_starts[idx], "")]]

\* the (start, end, title, kind) tuples of lines 157-163
SectionTuples(lines, st, section_starts) ==
    [idx \in 1..Len(section_starts) |->
        [start |-> section_starts[idx],
         end   |-> IF idx + 1 <= Len(section_starts)
                   THEN section_starts[idx + 1] ELSE Len(lines),
         title |-> DictGet(st.titles, section_starts[idx], <<>>),
         kind  |-> DictGet(st.kinds, section_starts[idx], "")]]

\* line 157 and the loop of lines 159-163, for the sectioner's final state
SectionsOf(lines, st) == SectionTuples(lines, st, Sorted(SeqToSet(st.starts)))

\* the sectioner's state had line 0 been classified like any other line
FirstLineClassified(line, kind) ==
    IF kind = "" THEN SectionerInit
    ELSE [starts |-> <<0>>, titles |-> (0 :> section_title(line)),
          kinds |-> (0 :> kind),
          last_strong_heading_i |-> IF kind = "heading" THEN Some(0) ELSE None,
          last_marker_i |-> Some(0)]

\* a sectioner without the skip of lines 134-135
SectionsClassifyingFirst(lines) ==
    SectionsOf(lines,
               IF lines = <<>> THEN SectionerInit
               ELSE SectionScan(lines, 1,
                        FirstLineClassified(At(lines, 0),
                                            section_marker_kind(At(lines, 0)))))

Sections(lines) == SectionsOf(lines, SectionScan(lines, 0, SectionerInit))

(***************************************************************************)
(* Region Selector (browser_agent.py 165-204).                             *)
(***************************************************************************)
InteractiveIndices(lines) ==
    {i \in Range(0, Len(lines)) : is_interactive_line(At(lines, i))}

SectionRange(sec) == Range(sec.start, sec.end)

InteractiveSections(lines, secs) ==
    {si \in 1..Len(secs) :
        \E i \in SectionRange(secs[si]) : is_interactive_line(At(lines, i))}

DialogSections(secs) == {si \in 1..Len(secs) : secs[si].kind = "dialog"}

ContextLines == 1

\* a context window that reaches back but not forward
ContextWindowBackOnly(i, n) == Range(Max(0, i - ContextLines), Min(n, i + 1))

ContextWindow(i, n) ==
    Range(Max(0, i - ContextLines), Min(n, i + ContextLines + 1))

\* a level 0 that keeps only the first line of a dialog section
KeptLevel0DialogAnchor(lines, secs) ==
    UNION {ContextWindow(i, Len(lines)) : i \in InteractiveIndices(lines)}
    \cup UNION {{secs[si].start} \cup {j \in {secs[si].start - 1} : j >= 0} :
                si \in InteractiveSections(lines, secs)}
    \cup UNION {{secs[si].start} : si \in DialogSections(secs)}

KeptLevel0(lines, secs) ==
    UNION {ContextWindow(i, Len(lines)) : i \in InteractiveIndices(lines)}
    \cup UNION {{secs[si].start} \cup {j \in {secs[si].start - 1} : j >= 0} :
                si \in InteractiveSections(lines, secs)}
    \cup UNION {SectionRange(secs[si]) : si \in DialogSections(secs)}

\* a level 1 that keeps the sections with interactive lines only
KeptLevel1InteractiveOnly(lines, secs) ==
    UNION {SectionRange(secs[si]) : si \in InteractiveSections(lines, secs)}

KeptLevel1(lines, secs) ==
    UNION {SectionRange(secs[si]) :
           si \in InteractiveSections(lines, secs) \cup DialogSections(secs)}

\* lines 179-199, for the sections secs
KeptOf(lines, level, secs) ==
    IF level <= 0 THEN KeptLevel0(lines, secs)
    ELSE IF level = 1 THEN KeptLevel1(lines, secs)
    ELSE Range(0, Len(lines))

\* a selector whose level 0 also keeps the second line after an
\* interactive line
KeptIndicesWideContext(lines, level) ==
    KeptOf(lines, level, Sections(lines))
       \cup {i + 2 : i \in {j \in InteractiveIndices(lines) :
                               level <= 0 /\ j + 2 < Len(lines)}}

kept_indices(lines, level) == KeptOf(lines, level, Sections(lines))

\* [lines[i] for i in order]
LinesAt(lines, order) == [k \in 1..Len(order) |-> At(lines, order[k])]

\* lines 201-204, for the kept set
PickLines(lines, kept) ==
    IF kept # {} THEN LinesAt(lines, Sorted(kept)) ELSE lines

\* a selector without the fallback of lines 203-204
FilteredLinesNoFallback(lines, level) ==
    LinesAt(lines, Sorted(kept_indices(lines, level)))

filtered_lines(lines, level) == PickLines(lines, kept_indices(lines, level))

\* the marker line of line 261
TruncationLine ==
    <<"[", "s", "n", "a", "p", "s", "h", "o", "t", ":", "t", "r", "u", "n",
      "c", "a", "t", "e", "d", "]", " ", "t", "r", "u", "e">>

\* the characters of a symbol
Spell(c) ==
    CASE c = "tab"     -> <<"t", "a", "b">>
      [] c = "nav"     -> <<"n", "a", "v">>
      [] c = "modal"   -> <<"m", "o", "d", "a", "l">>
      [] c = "dialog"  -> <<"d", "i", "a", "l", "o", "g">>
      [] c = "heading" -> <<"h", "e", "a", "d", "i", "n", "g">>
      [] c = "TAB"     -> <<"T", "A", "B">>
      [] c = "truncmark" -> TruncationLine
      [] OTHER         -> <<c>>

\* a text of symbols, character by character
RECURSIVE Chars(_)
Chars(t) ==
    IF t = <<>> THEN <<>>
    ELSE IF Len(t) = 1 THEN Spell(t[1])
    ELSE Chars(SubSeq(t, 1, Len(t) \div 2))
         \o Chars(SubSeq(t, (Len(t) \div 2) + 1, Len(t)))

\* the text of line 206, before the budget
Selected(raw, level) == Chars(JoinLines(filtered_lines(SplitLines(raw), level)))

(***************************************************************************)
(* Budgeter (browser_agent.py 207-210): the filtered text and the flag.    *)
(***************************************************************************)
\* a budgeter that is off by one
BudgetOffByOne(selected, max_chars) ==
    IF max_chars > 0 /\ Len(selected) > max_chars
    THEN [filtered |-> Take(selected, max_chars + 1), truncated |-> TRUE]
    ELSE [filtered |-> selected, truncated |-> FALSE]

Budget(selected, max_chars) ==
    IF max_chars > 0 /\ Len(selected) > max_chars
    THEN [filtered |-> Take(selected, max_chars), truncated |-> TRUE]
    ELSE [filtered |-> selected, truncated |-> FALSE]

\* lines 70-210 for one raw text: [filtered, truncated]
Compaction(raw, level, max_chars) == Budget(Selected(raw, level), max_chars)

(***************************************************************************)
(* The literal strings of the output (browser_agent.py 225-239, 261).      *)
(***************************************************************************)
NoChangeText ==
    <<"[", "s", "n", "a", "p", "s", "h", "o", "t", ":", "d", "e", "l", "t",
      "a", "]", " ", "n", "o", " ", "c", "h", "a", "n", "g", "e">>

ChangedHeader ==
    <<"[", "s", "n", "a", "p", "s", "h", "o", "t", ":", "d", "e", "l", "t",
      "a", "]", " ", "c", "h", "a", "n", "g", "e", "d">>

AddedMarker ==
    <<"[", "a", "d", "d", "e", "d", "]">>

RemovedMarker ==
    <<"[", "r", "e", "m", "o", "v", "e", "d", "]">>

TruncationSuffix == <<"\n">> \o TruncationLine

EndsWith(s, suffix) ==
    /\ Len(s) >= Len(suffix)
    /\ SubSeq(s, Len(s) - Len(suffix) + 1, Len(s)) = suffix

StartsWith(s, prefix) ==
    /\ Len(s) >= Len(prefix)
    /\ SubSeq(s, 1, Len(prefix)) = prefix

\* s without its last n characters
DropLast(s, n) == SubSeq(s, 1, Len(s) - n)

(***************************************************************************)
(* difflib.SequenceMatcher(None, a, b).ratio() as line 251 calls it:       *)
(* 2 * matches / (|a| + |b|), matches by longest matching block, then      *)
(* recursively left and right.  autojunk is on: when b has 200 characters  *)
(* or more, a character occurring more than |b| / 100 + 1 times in b is    *)
(* "popular": no block is looked for from it, a block found only extends   *)
(* over it.                                                                *)
(***************************************************************************)
AutojunkLen == 200

Occurrences(b, c) == Cardinality({j \in 1..Len(b) : b[j] = c})

\* bpopular of b
Popular(b) ==
    IF Len(b) >= AutojunkLen
    THEN {c \in SeqToSet(b) : Occurrences(b, c) > (Len(b) \div 100) + 1}
    ELSE {}

\* the indices of b that b2j holds: those of the characters not popular
B2JOf(b, popular) == {j \in 0..(Len(b) - 1) : At(b, j) \notin popular}

B2J(b) == B2JOf(b, Popular(b))

\* a[i:i+k] = b[j:j+k], with no popular character in it
BlockAt(a, b, b2j, i, j, k) ==
    \A d \in 0..(k - 1) : (j + d) \in b2j /\ At(a, i + d) = At(b, j + d)

\* the indices of b2j where a block of size k in b[blo:bhi] can start
StartsIn(b2j, blo, bhi, k) == {j \in b2j : blo <= j /\ j + k <= bhi}

RECURSIVE FirstBlockIn(_, _, _, _, _, _, _, _)

\* r when it is an index, else the first index in lo..hi
FirstOr(r, a, b, b2j, blo, bhi, k, lo, hi) ==
    IF r # -1 THEN r ELSE FirstBlockIn(a, b, b2j, blo, bhi, k, lo, hi)

\* where in b[blo:bhi] the block of size k at a[i] occurs
BlockStartsB(a, b, b2j, blo, bhi, i, k) ==
    {j \in StartsIn(b2j, blo, bhi, k) : BlockAt(a, b, b2j, i, j, k)}

\* a block of size k starts at a[i] that occurs in b[blo:bhi]
BlockFrom(a, b, b2j, blo, bhi, k, i) ==
    \E j \in StartsIn(b2j, blo, bhi, k) : BlockAt(a, b, b2j, i, j, k)

\* the first index in lo..hi of a where a block of size k starts that occurs
\* in b[blo:bhi]; -1 when there is none
FirstBlockIn(a, b, b2j, blo, bhi, k, lo, hi) ==
    IF lo > hi THEN -1
    ELSE IF lo = hi
         THEN (IF BlockFrom(a, b, b2j, blo, bhi, k, lo) THEN lo ELSE -1)
    ELSE FirstOr(FirstBlockIn(a, b, b2j, blo, bhi, k, lo, (lo + hi) \div 2),
                 a, b, b2j, blo, bhi, k, ((lo + hi) \div 2) + 1, hi)

RECURSIVE LongestIn(_, _, _, _, _, _, _, _, _)
\* the size of the longest block without popular characters, known to be
\* in lo..hi
LongestIn(a, b, b2j, alo, ahi, blo, bhi, lo, hi) ==
    IF lo >= hi THEN lo
    ELSE IF FirstBlockIn(a, b, b2j, blo, bhi, (lo + hi + 1) \div 2,
                         alo, ahi - ((lo + hi + 1) \div 2)) # -1
         THEN LongestIn(a, b, b2j, alo, ahi, blo, bhi, (lo + hi + 1) \div 2, hi)
    ELSE LongestIn(a, b, b2j, alo, ahi, blo, bhi, lo, ((lo + hi + 1) \div 2) - 1)

BlockFromA(a, b, b2j, blo, bhi, i, k) ==
    <<i, SmallestOf(BlockStartsB(a, b, b2j, blo, bhi, i, k)), k>>

\* the block of size k, earliest in a, then in b
BlockOfSize(a, b, b2j, alo, ahi, blo, bhi, k) ==
    BlockFromA(a, b, b2j, blo, bhi,
               FirstBlockIn(a, b, b2j, blo, bhi, k, alo, ahi - k), k)

\* the longest block without popular characters
BlockOrNone(a, b, b2j, alo, ahi, blo, bhi, k) ==
    IF k = 0 THEN <<alo, blo, 0>>
    ELSE BlockOfSize(a, b, b2j, alo, ahi, blo, bhi, k)

LongestBlock(a, b, b2j, alo, ahi, blo, bhi) ==
    BlockOrNone(a, b, b2j, alo, ahi, blo, bhi,
                LongestIn(a, b, b2j, alo, ahi, blo, bhi,
                          0, Min(ahi - alo, bhi - blo)))

\* how far the block at a[i], b[j] extends to the left
ExtendLeft(a, b, alo, blo, i, j) ==
    SmallestOf({d \in 0..Min(i - alo, j - blo) :
                   \/ d = Min(i - alo, j - blo)
                   \/ At(a, i - 1 - d) # At(b, j - 1 - d)})

\* how far the block ending before a[i], b[j] extends to the right
ExtendRight(a, b, ahi, bhi, i, j) ==
    SmallestOf({d \in 0..Min(ahi - i, bhi - j) :
                   \/ d = Min(ahi - i, bhi - j)
                   \/ At(a, i + d) # At(b, j + d)})

ExtendBy(m, left, right) == <<m[1] - left, m[2] - left, m[3] + left + right>>

Extended(a, b, alo, ahi, blo, bhi, m) ==
    ExtendBy(m, ExtendLeft(a, b, alo, blo, m[1], m[2]),
                ExtendRight(a, b, ahi, bhi, m[1] + m[3], m[2] + m[3]))

\* find_longest_match: <<i, j, k>>
find_longest_match(a, b, b2j, alo, ahi, blo, bhi) ==
    Extended(a, b, alo, ahi, blo, bhi,
             LongestBlock(a, b, b2j, alo, ahi, blo, bhi))

RECURSIVE Matches(_, _, _, _, _, _, _)

\* the block m, and the matches to its left and to its right
MatchesAround(a, b, b2j, alo, ahi, blo, bhi, m) ==
    IF m[3] = 0 THEN 0
    ELSE m[3] + Matches(a, b, b2j, alo, m[1], blo, m[2])
              + Matches(a, b, b2j, m[1] + m[3], ahi, m[2] + m[3], bhi)

Matches(a, b, b2j, alo, ahi, blo, bhi) ==
    IF alo >= ahi \/ blo >= bhi THEN 0
    ELSE MatchesAround(a, b, b2j, alo, ahi, blo, bhi,
                       find_longest_match(a, b, b2j, alo, ahi, blo, bhi))

\* ratio() >= num/100, in integers
RatioAtLeast(a, b, num) ==
    IF Len(a) + Len(b) = 0 THEN TRUE
    ELSE 200 * Matches(a, b, B2J(b), 0, Len(a), 0, Len(b))
             >= num * (Len(a) + Len(b))

(***************************************************************************)
(* Delta Engine (browser_agent.py 212-253).                                *)
(***************************************************************************)
DiffCap == 200
SmallChangedMax == 60
SmallFractionPct == 12
SmallRatioPct == 85

\* [l for l in xs if l not in set(ys)]
NotIn(xs, ys) == SelectSeq(xs, LAMBDA l : l \notin SeqToSet(ys))

\* a diff that lists every added and every removed line
DiffTextNoCap(added, removed) ==
    JoinLines(<<ChangedHeader>>
              \o (IF added # <<>> THEN <<AddedMarker>> \o added ELSE <<>>)
              \o (IF removed # <<>> THEN <<RemovedMarker>> \o removed ELSE <<>>))

\* lines 225-232, for the added and the removed lines
DiffText(added, removed) ==
    JoinLines(<<ChangedHeader>>
              \o (IF added # <<>>
                  THEN <<AddedMarker>> \o Take(added, DiffCap) ELSE <<>>)
              \o (IF removed # <<>>
                  THEN <<RemovedMarker>> \o Take(removed, DiffCap) ELSE <<>>))

DiffOfLines(prev_lines, now_lines) ==
    DiffText(NotIn(now_lines, prev_lines), NotIn(prev_lines, now_lines))

build_diff(prev_text, now_text) ==
    DiffOfLines(SplitLines(prev_text), SplitLines(now_text))

\* a threshold test without the changed / total condition
SmallChangeOfNoFraction(changed_lines, total_lines, prev_text, now_text) ==
    /\ changed_lines <= SmallChangedMax
    /\ RatioAtLeast(prev_text, now_text, SmallRatioPct)

\* line 252
SmallChangeOf(changed_lines, total_lines, prev_text, now_text) ==
    /\ changed_lines <= SmallChangedMax
    /\ changed_lines * 100 <= SmallFractionPct * total_lines
    /\ RatioAtLeast(prev_text, now_text, SmallRatioPct)

\* lines 246-252, for the lines of the two texts
SmallChangeOfLines(prev_lines, now_lines, prev_text, now_text) ==
    SmallChangeOf(Len(NotIn(now_lines, prev_lines)) + Len(NotIn(prev_lines, now_lines)),
                  Max(1, Len(prev_lines) + Len(now_lines)),
                  prev_text, now_text)

small_change(prev_text, now_text) ==
    SmallChangeOfLines(SplitLines(prev_text), SplitLines(now_text), prev_text, now_text)

(***************************************************************************)
(* The snapshots of the delta specification: a few short texts and a few   *)
(* texts of about a hundred lines, so that every condition of line 252 is  *)
(* met and missed.  They are taken at level 2 without a budget.            *)
(***************************************************************************)
SnapshotLines == 100
LongLineLen == 280
FewLines == 30

Repeat(l, n) == [i \in 1..n |-> l]

\* a line of n characters that all differ
DistinctChars(from, n) == [i \in 1..n |-> "g" \o ToString(from + i)]

\* SnapshotLines lines "ab", but for the lines at the indices of changed
Page(changed) ==
    [i \in 1..SnapshotLines |->
        IF i \in DOMAIN changed THEN changed[i] ELSE <<"a", "b">>]

ShortTexts ==
    { <<<<"a">>, <<"a">>, <<"a">>, <<"a">>, <<"b">>>>,
      <<<<"a">>, <<"a">>, <<"a">>, <<"a">>, <<"a">>>>,
      <<<<"a">>, <<"a">>, <<"a">>, <<"a">>, <<"heading">>>>,
      <<<<"heading">>, <<"heading">>, <<"a">>>>,
      <<<<"heading">>, <<"heading">>, <<"heading">>>> }

LongTexts ==
    { Page(<<>>),
      Page((11 :> <<"c", "d">>) @@ (51 :> <<"e", "f">>) @@ (91 :> <<"g", "h">>)),
      Repeat(<<"c", "d">>, FewLines),
      Repeat(<<>>, SnapshotLines - 1) \o <<DistinctChars(0, LongLineLen)>>,
      <<<<>>, DistinctChars(0, LongLineLen \div 2),
              DistinctChars(LongLineLen \div 2, LongLineLen - (LongLineLen \div 2))>> }

DeltaTexts == {JoinLines(ls) : ls \in ShortTexts \cup LongTexts}

\* Compaction and small_change, tabulated once for these texts
DeltaCompactionMemo == [t \in DeltaTexts |-> Compaction(t, 2, 0)]

DeltaFiltered == {DeltaCompactionMemo[t].filtered : t \in DeltaTexts}

SmallChangeMemo ==
    [p \in DeltaFiltered |-> [q \in DeltaFiltered |-> small_change(p, q)]]

SmallChangeFor(prev_text, now_text) ==
    IF prev_text \in DeltaFiltered /\ now_text \in DeltaFiltered
    THEN SmallChangeMemo[prev_text][now_text]
    ELSE small_change(prev_text, now_text)

\* x or ""
OrEmpty(opt) == IF opt = None THEN <<>> ELSE opt[1]

\* a delta engine that compares with the remembered raw hash
DeltaDecisionRawHash(m, filtered, delta_mode) ==
    IF delta_mode = "off" THEN "full"
    ELSE IF m.hash # None /\ m.hash[1] = Sha256Hex(filtered) THEN "nochange"
    ELSE IF m.filtered_hash = None THEN "full"
    ELSE IF delta_mode = "on" THEN "diff"
    ELSE IF SmallChangeFor(OrEmpty(m.filtered_text), filtered) THEN "diff"
    ELSE "full"

\* a delta engine without the first-call branch of lines 240-241
DeltaDecisionNoFirstCall(m, filtered, delta_mode) ==
    IF delta_mode = "off" THEN "full"
    ELSE IF m.filtered_hash = Some(Sha256Hex(filtered)) THEN "nochange"
    ELSE IF delta_mode = "on" THEN "diff"
    ELSE IF SmallChangeFor(OrEmpty(m.filtered_text), filtered) THEN "diff"
    ELSE "full"

\* the branch of lines 235-253 taken: "full", "nochange" or "diff"
DeltaDecision(m, filtered, delta_mode) ==
    IF delta_mode = "off" THEN "full"
    ELSE IF m.filtered_hash # None /\ m.filtered_hash[1] = Sha256Hex(filtered)
         THEN "nochange"
    ELSE IF m.filtered_hash = None THEN "full"
    ELSE IF delta_mode = "on" THEN "diff"
    ELSE IF SmallChangeFor(OrEmpty(m.filtered_text), filtered) THEN "diff"
    ELSE "full"

\* a delta engine that diffs against the remembered raw text
DeltaOutRawDiff(d, m, filtered) ==
    IF d = "full" THEN filtered
    ELSE IF d = "nochange" THEN NoChangeText
    ELSE build_diff(Chars(OrEmpty(m.text)), filtered)

\* lines 236-253: the text before the truncation marker
DeltaOut(d, m, filtered) ==
    IF d = "full" THEN filtered
    ELSE IF d = "nochange" THEN NoChangeText
    ELSE build_diff(OrEmpty(m.filtered_text), filtered)

(***************************************************************************)
(* Session memory and the pipeline (browser_agent.py 57-60, 62-262).       *)
(***************************************************************************)
EmptyMemory ==
    [text |-> None, hash |-> None, filtered_text |-> None, filtered_hash |-> None]

\* memory that is written only when the delta engine ran
MemoryAfterSkipOff(m, raw, filtered, delta_mode) ==
    IF delta_mode = "off" THEN m
    ELSE [text |-> Some(raw), hash |-> Some(Sha256Hex(Chars(raw))),
          filtered_text |-> Some(filtered),
          filtered_hash |-> Some(Sha256Hex(filtered))]

\* lines 255-258
MemoryAfter(m, raw, filtered, delta_mode) ==
    [text |-> Some(raw), hash |-> Some(Sha256Hex(Chars(raw))),
     filtered_text |-> Some(filtered),
     filtered_hash |-> Some(Sha256Hex(filtered))]

\* lines 260-262
WithMarker(out, truncated) == IF truncated THEN out \o TruncationSuffix ELSE out

Levels == 0..2
\* the max_chars values tried; 0 is "no budget" (line 208)
Budgets == {0, 2}
DeltaModes == {"off", "on", "auto"}

SessLines == {<<"a">>, <<"tab">>}

\* the raw texts of the session specification: up to MaxSessLines lines
SessTexts == {JoinLines(ls) : ls \in TextsOver(SessLines, MaxSessLines)}

\* Compaction, tabulated once for the raw texts of the session specification
CompactionMemo ==
    [t \in SessTexts |-> [l \in Levels |-> [b \in Budgets |-> Compaction(t, l, b)]]]

CompactionOf(raw, level, max_chars) ==
    IF raw \in SessTexts /\ level \in Levels /\ max_chars \in Budgets
    THEN CompactionMemo[raw][level][max_chars]
    ELSE IF raw \in DeltaTexts /\ level = 2 /\ max_chars = 0
    THEN DeltaCompactionMemo[raw]
    ELSE Compaction(raw, level, max_chars)

\* _postprocess_snapshot_text as a function of memory and arguments:
\* the returned string, the branch taken and the memory left behind
\* a pipeline that appends the marker only to a full text
PipelineOutMarkerOnFull(m, text, c, d, delta_mode) ==
    [out |-> WithMarker(DeltaOut(d, m, c.filtered), c.truncated /\ d = "full"),
     decision |-> d,
     mem |-> MemoryAfter(m, text, c.filtered, delta_mode)]

\* lines 234-262, for the compaction c and the branch d
PipelineOut(m, text, c, d, delta_mode) ==
    [out |-> WithMarker(DeltaOut(d, m, c.filtered), c.truncated),
     decision |-> d,
     mem |-> MemoryAfter(m, text, c.filtered, delta_mode)]

\* lines 212-262, for the compaction c
PipelineFrom(m, text, c, delta_mode) ==
    PipelineOut(m, text, c, DeltaDecision(m, c.filtered, delta_mode), delta_mode)

\* a pipeline that hashes, diffs and remembers the whole selected text and
\* cuts what it returns
PipelineCutAfterDelta(m, text, level, max_chars, delta_mode) ==
    [out |-> WithMarker(
                Take(PipelineFrom(m, text, CompactionOf(text, level, 0), delta_mode).out,
                     IF CompactionOf(text, level, max_chars).truncated
                        /\ DeltaDecision(m, CompactionOf(text, level, 0).filtered,
                                         delta_mode) = "full"
                     THEN max_chars
                     ELSE Len(PipelineFrom(m, text, CompactionOf(text, level, 0),
                                           delta_mode).out)),
                CompactionOf(text, level, max_chars).truncated),
     decision |-> DeltaDecision(m, CompactionOf(text, level, 0).filtered, delta_mode),
     mem |-> MemoryAfter(m, text, CompactionOf(text, level, 0).filtered, delta_mode)]

Pipeline(m, text, level, max_chars, delta_mode) ==
    PipelineFrom(m, text, CompactionOf(text, level, max_chars), delta_mode)

NoCall ==
    [made |-> FALSE, first |-> FALSE, raw |-> <<>>, level |-> 0, max_chars |-> 0,
     delta_mode |-> "", out |-> <<>>, decision |-> "",
     same_input |-> FALSE, prev_mode |-> ""]

\* one call of _postprocess_snapshot_text(text, level, max_chars, delta_mode)
postprocess_snapshot_text(text, level, max_chars, delta_mode) ==
    LET same == /\ call.made
                /\ call.raw = text
                /\ call.level = level
                /\ call.max_chars = max_chars
    IN  \E r \in {Pipeline(mem, text, level, max_chars, delta_mode)} :
        /\ mem' = r.mem
        /\ call' = [made |-> TRUE,
                    first |-> ~call.made,
                    raw |-> text, level |-> level, max_chars |-> max_chars,
                    delta_mode |-> delta_mode,
                    out |-> r.out,
                    decision |-> r.decision,
                    same_input |-> same,
                    prev_mode |-> IF same THEN call.delta_mode ELSE ""]

(***************************************************************************)
(* Timeout-guarded dispatcher (mcp_client.py 28-83).                       *)
(***************************************************************************)
\* _TOOL_TIMEOUTS_SECONDS with the defaults of lines 31-35
ToolTimeouts ==
    ("click" :> 5) @@ ("fill" :> 8) @@ ("fill_form" :> 12)
    @@ ("press_key" :> 8) @@ ("navigate_page" :> 15)

NoTool == [name |-> "", timeout |-> 0]

\* line 48: getattr(tool, "name", "") or type(tool).__name__
tool_name(t) == IF t.name # "" THEN t.name ELSE "StructuredTool"

\* the f-string of lines 72-76, in its parts
TimeoutMessage(t) ==
    <<"Tool '", tool_name(t), "' timed out after ", ToString(t.timeout), "s. ",
      "The page may be loading, the target may be unclickable/unfillable, or the browser is blocked. ",
      "Try take_snapshot and retry with a different target.">>

TaskDone == {"result", "error", "cancelled"}

\* no agent, no call
NoAgent ==
    [live |-> FALSE, connected |-> FALSE, setting |-> FALSE, gen |-> 0,
     snapshots |-> 0, url |-> ""]

ApiIdle ==
    /\ agent = NoAgent
    /\ orphan = EmptyMemory
    /\ reqs = <<>>
    /\ issued = <<>>
    /\ updated = <<>>

ToolIdle ==
    /\ wpc = "idle"
    /\ tool = NoTool
    /\ task = "none"
    /\ clock = 0
    /\ cancels = 0
    /\ honours = FALSE
    /\ cb = "notrun"
    /\ ret = <<>>
    /\ loopErrs = 0

\* lines 50-64: create the task, attach the callback, start waiting
Invoke ==
    /\ wpc = "idle"
    /\ \E name \in DOMAIN ToolTimeouts :
          tool' = [name |-> name, timeout |-> ToolTimeouts[name]]
    /\ \E h \in BOOLEAN : honours' = h
    /\ task' = "running"
    /\ wpc' = "waiting"
    /\ clock' = 0
    /\ UNCHANGED <<cancels, cb, ret, loopErrs, mem, call, before, apiVars>>

\* a second passes while asyncio.wait is pending
Tick ==
    /\ wpc = "waiting"
    /\ clock < tool.timeout
    /\ clock' = clock + 1
    /\ UNCHANGED <<wpc, tool, task, cancels, honours, cb, ret, loopErrs, mem, call, before, apiVars>>

\* tool.ainvoke returns a value; after a cancellation request only an
\* operation that ignores it still does
OpReturns ==
    /\ task = "running"
    /\ cancels > 0 => ~honours
    /\ task' = "result"
    /\ UNCHANGED <<wpc, tool, clock, cancels, honours, cb, ret, loopErrs, mem, call, before, apiVars>>

\* tool.ainvoke raises an Exception
OpRaises ==
    /\ task = "running"
    /\ cancels > 0 => ~honours
    /\ task' = "error"
    /\ UNCHANGED <<wpc, tool, clock, cancels, honours, cb, ret, loopErrs, mem, call, before, apiVars>>

\* the operation honours task.cancel(): the task ends cancelled
OpCancelled ==
    /\ task = "running"
    /\ cancels > 0
    /\ honours
    /\ task' = "cancelled"
    /\ UNCHANGED <<wpc, tool, clock, cancels, honours, cb, ret, loopErrs, mem, call, before, apiVars>>

\* what t.result() does for a finished task: the class of what it raises
ResultRaises(t) ==
    CASE t = "result"    -> "nothing"
      [] t = "error"     -> "Exception"
      [] t = "cancelled" -> "BaseException"   \* asyncio.CancelledError

\* lines 56-60: try: t.result() / except Exception: return
swallow_task_result(t) ==
    IF ResultRaises(t) \in {"nothing", "Exception"} THEN "returned" ELSE "raised"

\* the event loop runs the done callback of line 62, once
RunCallback ==
    /\ task \in TaskDone
    /\ cb = "notrun"
    /\ cb' = swallow_task_result(task)
    /\ loopErrs' = IF swallow_task_result(task) = "raised" THEN loopErrs + 1 ELSE loopErrs
    /\ UNCHANGED <<wpc, tool, task, clock, cancels, honours, ret, mem, call, before, apiVars>>

\* what "await task" at line 66 gives for a finished task
AwaitTask(t) ==
    CASE t = "result"    -> [kind |-> "result", value |-> <<"operation result">>]
      [] t = "error"     -> [kind |-> "raise", value |-> <<"operation error">>]
      [] t = "cancelled" -> [kind |-> "raise", value |-> <<"CancelledError">>]

\* lines 64-68: asyncio.wait returns with the task in done
WaitDone ==
    /\ wpc = "waiting"
    /\ task \in TaskDone
    /\ ret' = Append(ret, AwaitTask(task) @@ [saw |-> task, at |-> clock])
    /\ wpc' = "returned"
    /\ UNCHANGED <<tool, task, clock, cancels, honours, cb, loopErrs, mem, call, before, apiVars>>

\* a wrapper that, like asyncio.wait_for, cancels at the deadline and then
\* keeps waiting for the task to end
WaitTimeoutThenJoin ==
    /\ wpc = "waiting"
    /\ clock = tool.timeout
    /\ task = "running"
    /\ cancels = 0
    /\ cancels' = cancels + 1
    /\ UNCHANGED <<wpc, tool, task, clock, honours, cb, ret, loopErrs, mem, call, before, apiVars>>

\* a wrapper that returns the message without task.cancel()
WaitTimeoutNoCancel ==
    /\ wpc = "waiting"
    /\ clock = tool.timeout
    /\ task = "running"
    /\ ret' = Append(ret, [kind |-> "timeout", value |-> TimeoutMessage(tool),
                           saw |-> task, at |-> clock])
    /\ wpc' = "returned"
    /\ UNCHANGED <<tool, task, clock, cancels, honours, cb, loopErrs, mem, call, before, apiVars>>

\* lines 64-65 and 70-76: asyncio.wait returns at the deadline with the task
\* pending; cancel it and return the message
WaitTimeout ==
    /\ wpc = "waiting"
    /\ clock = tool.timeout
    /\ task = "running"
    /\ cancels' = cancels + 1
    /\ ret' = Append(ret, [kind |-> "timeout", value |-> TimeoutMessage(tool),
                           saw |-> task, at |-> clock])
    /\ wpc' = "returned"
    /\ UNCHANGED <<tool, task, clock, honours, cb, loopErrs, mem, call, before, apiVars>>

InitTool ==
    /\ mem = EmptyMemory
    /\ call = NoCall
    /\ before = EmptyMemory
    /\ ToolIdle
    /\ ApiIdle

NextTool ==
    \/ Invoke
    \/ Tick
    \/ OpReturns
    \/ OpRaises
    \/ OpCancelled
    \/ RunCallback
    \/ WaitDone
    \/ WaitTimeout

\* The event loop's clock advances and a coroutine that can resume does.
SpecTool ==
    /\ InitTool
    /\ [][NextTool]_vars
    /\ WF_vars(Tick)
    /\ WF_vars(WaitDone)
    /\ WF_vars(WaitTimeout)
    /\ WF_vars(RunCallback)

(***************************************************************************)
(* Single-call specification: one pipeline call on a new BrowserAgent,     *)
(* for every raw text over the alphabet.                                   *)
(***************************************************************************)
Alphabet == {"a", "tab", "modal", "heading", "nav", "\n", "\r"}

RawTexts == TextsOver(Alphabet, MaxLen)

InitCompact ==
    /\ mem = EmptyMemory
    /\ call = NoCall
    /\ before = EmptyMemory
    /\ ToolIdle
    /\ ApiIdle

Compact ==
    /\ ~call.made
    /\ \E text \in RawTexts, level \in Levels, max_chars \in Budgets,
          delta_mode \in {"off", "auto"} :
          postprocess_snapshot_text(text, level, max_chars, delta_mode)
    /\ UNCHANGED <<toolVars, before, apiVars>>

NextCompact == Compact

SpecCompact == InitCompact /\ [][NextCompact]_vars

(***************************************************************************)
(* Session specification: any sequence of pipeline calls on one agent,     *)
(* and replacing the agent by a new one.                                   *)
(***************************************************************************)
InitSession ==
    /\ mem = EmptyMemory
    /\ call = NoCall
    /\ before = EmptyMemory
    /\ ToolIdle
    /\ ApiIdle

TakeSnapshot ==
    /\ \E text \in SessTexts, level \in Levels, max_chars \in Budgets,
          delta_mode \in DeltaModes :
          postprocess_snapshot_text(text, level, max_chars, delta_mode)
    /\ UNCHANGED <<toolVars, before, apiVars>>

\* BrowserAgent.__init__, lines 57-60
NewAgent ==
    /\ call.made
    /\ mem' = EmptyMemory
    /\ call' = NoCall
    /\ UNCHANGED <<toolVars, before, apiVars>>

NextSession == TakeSnapshot \/ NewAgent

SpecSession == InitSession /\ [][NextSession]_vars

(***************************************************************************)
(* Properties.                                                             *)
(***************************************************************************)
\* the selected text of the last call, and whether it is over the budget
CallSelected == Selected(call.raw, call.level)

CallOver == call.max_chars > 0 /\ Len(CallSelected) > call.max_chars

\* text t cut to the budget of the last call
CallCut(t) ==
    IF call.max_chars > 0 /\ Len(t) > call.max_chars
    THEN Take(t, call.max_chars) ELSE t

\* out, followed by the marker line when the last call's text was over budget
CallMarked(out) == IF CallOver THEN out \o <<"\n">> \o TruncationLine ELSE out

\* C1: when the pipeline is called twice in a row on one session with the
\* same raw text, level and max_chars and delta_mode "on" both times, the
\* second call returns "[snapshot:delta] no change", followed by the
\* truncation marker line exactly when the selected text was over budget.
C1_RepeatIsNoChange ==
    (call.made /\ call.same_input /\ call.prev_mode = "on" /\ call.delta_mode = "on")
        => call.out = CallMarked(NoChangeText)

C1_Witness ==
    /\ call.same_input /\ call.prev_mode = "on" /\ call.delta_mode = "on"
    /\ call.out = NoChangeText \o TruncationSuffix

\* C2: the first call on a new agent with delta_mode "on" or "auto" takes
\* the full-text branch and returns the filtered text (with the marker line
\* when over budget), never the sentinel and never a diff.
C2_FirstCallIsFull ==
    (call.made /\ call.first /\ call.delta_mode \in {"on", "auto"})
        => /\ call.decision = "full"
           /\ call.out = CallMarked(CallCut(CallSelected))
           /\ call.out # CallMarked(NoChangeText)
           /\ ~StartsWith(call.out, ChangedHeader)

C2_Witness ==
    /\ call.first /\ call.delta_mode = "on" /\ CallOver
    /\ Len(SplitLines(call.raw)) >= 2

\* C3: after every call, in every mode and every branch, memory holds that
\* call's raw text and hash and that call's filtered text and hash; and a
\* call in mode "on" or "auto" that repeats the input of a preceding call in
\* mode "off" returns the no-change sentinel.
C3_MemoryIsLastCall ==
    call.made =>
        /\ mem = [text |-> Some(call.raw),
                  hash |-> Some(Sha256Hex(Chars(call.raw))),
                  filtered_text |-> Some(CallCut(CallSelected)),
                  filtered_hash |-> Some(Sha256Hex(CallCut(CallSelected)))]
        /\ (call.same_input /\ call.prev_mode = "off"
                /\ call.delta_mode \in {"on", "auto"})
               => call.out = CallMarked(NoChangeText)

C3_Witness ==
    /\ call.same_input /\ call.prev_mode = "off" /\ call.delta_mode = "auto"
    /\ call.decision = "nochange"
    /\ mem.text = Some(call.raw)

\* C10 as claimed: whenever the selected text is over budget, the output
\* without the trailing marker line has exactly max_chars characters, in
\* every mode and for first and later calls.
C10_AlwaysMaxChars ==
    (call.made /\ CallOver)
        => /\ EndsWith(call.out, TruncationLine)
           /\ Len(DropLast(call.out, Len(TruncationSuffix))) = call.max_chars

\* C10, amended: whenever the selected text is over budget the output ends
\* with the marker line; what precedes it is the first max_chars characters
\* of the selected text when the delta engine emits the full text, and the
\* sentinel or the structural diff otherwise.
C10_MarkerAfterDelta ==
    (call.made /\ CallOver)
        => /\ EndsWith(call.out, <<"\n">> \o TruncationLine)
           /\ LET body == DropLast(call.out, 1 + Len(TruncationLine))
              IN  CASE call.decision = "full" ->
                          /\ Len(body) = call.max_chars
                          /\ body = Take(CallSelected, call.max_chars)
                    [] call.decision = "nochange" -> body = NoChangeText
                    [] call.decision = "diff" -> StartsWith(body, ChangedHeader)

C10_Witness ==
    /\ call.made /\ CallOver /\ ~call.first
    /\ call.decision = "full" /\ call.delta_mode = "auto"

\* the lines of the last call's raw text
CallLines == SplitLines(call.raw)

\* a raw text whose only line separators are single "\n" and that does not
\* end with one
OnlyInnerNewlines(t) ==
    /\ \A i \in 1..Len(t) : t[i] \in LineSeps => t[i] = "\n"
    /\ t # <<>> => t[Len(t)] \notin LineSeps

\* C7 as claimed: at level 2 with delta off the filtered text is the raw
\* text, character for character, or its first max_chars characters when
\* the raw text is longer than max_chars, for every raw text.
C7_ExactInput ==
    (call.made /\ call.level = 2 /\ call.delta_mode = "off")
        => mem.filtered_text = Some(CallCut(Chars(call.raw)))

\* C7, amended: at level 2 with delta off the filtered text equals the raw
\* text (or its first max_chars characters) when the raw text does not end
\* with a line separator and has no separator other than "\n"; a raw text
\* within the budget that ends with a separator or holds another separator
\* is not returned exactly.
C7_ExactUpToLineEndings ==
    (call.made /\ call.level = 2 /\ call.delta_mode = "off")
        => /\ OnlyInnerNewlines(call.raw)
                => mem.filtered_text = Some(CallCut(Chars(call.raw)))
           /\ (~OnlyInnerNewlines(call.raw)
                 /\ (call.max_chars = 0 \/ Len(Chars(call.raw)) <= call.max_chars))
                => mem.filtered_text # Some(Chars(call.raw))

C7_Witness ==
    /\ call.made /\ call.level = 2 /\ call.delta_mode = "off"
    /\ OnlyInnerNewlines(call.raw)
    /\ Len(CallLines) = 3
    /\ CallLines[2] = <<>>
    /\ call.out = Chars(call.raw)

\* C8: at level 0 every interactive line index is kept, and so are the
\* index before it and the index after it when they exist.
C8_InteractiveWindowKept ==
    (call.made /\ call.level = 0)
        => \A i \in Range(0, Len(CallLines)) :
              is_interactive_line(At(CallLines, i))
                  => /\ i \in kept_indices(CallLines, 0)
                     /\ i - 1 >= 0 => (i - 1) \in kept_indices(CallLines, 0)
                     /\ i + 1 < Len(CallLines) => (i + 1) \in kept_indices(CallLines, 0)

C8_Witness ==
    /\ call.made /\ call.level = 0
    /\ Len(CallLines) = 3
    /\ is_interactive_line(At(CallLines, 0))
    /\ kept_indices(CallLines, 0) = {0, 1}

\* the precondition of C9: no line is interactive and no section is a dialog
NothingSelected(lines) ==
    /\ \A i \in Range(0, Len(lines)) : ~is_interactive_line(At(lines, i))
    /\ \A si \in 1..Len(Sections(lines)) : Sections(lines)[si].kind # "dialog"

\* C9 as claimed: for every non-empty raw text in which no line is
\* interactive and no section is a dialog, the output is not empty.
C9_NonEmptyInputNonEmptyOutput ==
    (call.made /\ call.raw # <<>> /\ NothingSelected(CallLines))
        => call.out # <<>>

\* C9, amended: for every raw text that has a non-empty line or at least two
\* lines, in which no line is interactive and no section is a dialog, the
\* output is not empty: the filtered text is the complete line sequence,
\* joined and cut to the budget.  A raw text that is one line separator has
\* the single line "" and is returned as the empty string.
C9_FallbackToAllLines ==
    (call.made /\ NothingSelected(CallLines))
        => /\ (Len(CallLines) >= 2 \/ (Len(CallLines) = 1 /\ CallLines[1] # <<>>))
                => /\ call.out # <<>>
                   /\ mem.filtered_text = Some(CallCut(Chars(JoinLines(CallLines))))
                   /\ call.out = CallMarked(CallCut(Chars(JoinLines(CallLines))))
           /\ CallLines = << <<>> >> => call.out = <<>>

C9_Witness ==
    /\ call.made /\ call.level = 0 /\ NothingSelected(CallLines)
    /\ Len(CallLines) = 3
    /\ section_marker_kind(At(CallLines, 1)) = "heading"
    /\ call.out = Chars(JoinLines(CallLines))

\* the precondition of C4: the operation does not end while the wrapper waits
OpPendingWhileWaiting == wpc = "waiting" => task = "running"

\* the returned value is the timeout message naming the tool
ReturnedTimeout ==
    /\ wpc = "returned"
    /\ Len(ret) = 1
    /\ ret[1].kind = "timeout"
    /\ \E i \in 1..Len(ret[1].value) : ret[1].value[i] = tool.name
    /\ \E i \in 1..Len(ret[1].value) : ret[1].value[i] = "' timed out after "

\* C4: every invocation of a wrapped tool returns to its caller; when the
\* operation does not end while the wrapper waits, it returns the message
\* that holds the tool's name and "timed out", whether or not the operation
\* honours the cancellation or ends later.
C4_ReturnsAtDeadline ==
    /\ [](wpc = "waiting" => <>(wpc = "returned"))
    /\ []OpPendingWhileWaiting => [](wpc = "waiting" => <>ReturnedTimeout)

C4_Witness ==
    /\ ReturnedTimeout
    /\ ~honours /\ cancels = 1
    /\ task = "result"
    /\ tool.name = "click"

\* C5: an invocation that has returned delivered exactly one outcome: the
\* operation's result or failure, with no cancellation requested, when the
\* task was done as asyncio.wait returned; the timeout message, with
\* cancellation requested exactly once, when the task was still pending at
\* the deadline.  Before it returns nothing is delivered and nothing cancelled.
C5_ExactlyOneWinner ==
    /\ wpc # "returned" => (ret = <<>> /\ cancels = 0)
    /\ wpc = "returned" =>
          /\ Len(ret) = 1
          /\ \/ /\ ret[1].saw \in TaskDone
                /\ ret[1].kind = (IF ret[1].saw = "result" THEN "result" ELSE "raise")
                /\ cancels = 0
             \/ /\ ret[1].saw = "running"
                /\ ret[1].at = tool.timeout
                /\ ret[1].kind = "timeout"
                /\ cancels = 1

C5_Witness ==
    /\ wpc = "returned"
    /\ ret[1].kind = "raise"
    /\ ret[1].at = tool.timeout
    /\ cancels = 0

\* C6: after the wrapper has returned the timeout message, the completion
\* callback of the abandoned task, however the task ends, returns without
\* raising and nothing reaches the event loop's exception handler.
C6_LateOutcomeSwallowed ==
    (wpc = "returned" /\ ret[1].kind = "timeout" /\ cb # "notrun")
        => (cb = "returned" /\ loopErrs = 0)

(***************************************************************************)
(* Marker specification: a session whose snapshots may themselves hold the *)
(* line "[snapshot:truncated] true".                                       *)
(***************************************************************************)
MarkerLines == {<<"a">>, <<"truncmark">>}

MarkerTexts == {JoinLines(ls) : ls \in TextsOver(MarkerLines, 2)}

InitMarker ==
    /\ mem = EmptyMemory
    /\ call = NoCall
    /\ before = EmptyMemory
    /\ ToolIdle
    /\ ApiIdle

TakeMarkerSnapshot ==
    /\ \E text \in MarkerTexts, level \in Levels, max_chars \in Budgets,
          delta_mode \in DeltaModes :
          postprocess_snapshot_text(text, level, max_chars, delta_mode)
    /\ UNCHANGED <<toolVars, before, apiVars>>

NextMarker == TakeMarkerSnapshot

SpecMarker == InitMarker /\ [][NextMarker]_vars

\* the last line of an output is the marker line
LastLineIsMarker(out) ==
    /\ SplitLines(out) # <<>>
    /\ SplitLines(out)[Len(SplitLines(out))] = TruncationLine

\* C11 as claimed: in every delta mode and decision the output's last line
\* is "[snapshot:truncated] true" if and only if the selected text was over
\* the budget in this call.
C11_MarkerIffTruncated ==
    call.made => (LastLineIsMarker(call.out) <=> CallOver)

\* C11, amended: in every delta mode and decision the call returns, and when
\* the selected text was over the budget the output ends with the marker
\* line, appended after the full text, the sentinel or the diff.  When it was
\* not over the budget nothing is appended: the output is the filtered text,
\* the sentinel or the diff, and its last line is the marker line only where
\* the snapshot itself supplies that line.
C11_MarkerWhenTruncated ==
    call.made =>
        /\ call.decision \in {"full", "nochange", "diff"}
        /\ CallOver => EndsWith(call.out, TruncationSuffix)
        /\ (~CallOver /\ call.decision = "full") => call.out = CallSelected
        /\ (~CallOver /\ call.decision = "nochange") => call.out = NoChangeText
        /\ (~CallOver /\ call.decision = "diff") => StartsWith(call.out, ChangedHeader)

C11_Witness ==
    /\ call.made /\ CallOver /\ call.decision = "diff"
    /\ EndsWith(call.out, TruncationSuffix)
    /\ call.delta_mode = "on"

\* C12: at level 0 every line index of every section of kind dialog, from
\* the section's start to the next section's start or the end of the text,
\* is kept, interactive or not; and every interactive line, in whatever
\* section, keeps its window of one line before and after.
C12_DialogSectionsKeptWhole ==
    (call.made /\ call.level = 0) =>
        /\ \A si \in 1..Len(Sections(CallLines)) :
              Sections(CallLines)[si].kind = "dialog" =>
                 \A i \in Range(0, Len(CallLines)) :
                    (Sections(CallLines)[si].start <= i /\ i < Sections(CallLines)[si].end)
                        => i \in kept_indices(CallLines, 0)
        /\ \A i \in Range(0, Len(CallLines)) :
              is_interactive_line(At(CallLines, i)) =>
                 \A j \in Range(0, Len(CallLines)) :
                    (i - 1 <= j /\ j <= i + 1) => j \in kept_indices(CallLines, 0)

C12_Witness ==
    /\ call.made /\ call.level = 0
    /\ Len(CallLines) = 3
    /\ Len(Sections(CallLines)) = 2
    /\ Sections(CallLines)[2].kind = "dialog"
    /\ At(CallLines, 2) = <<"a">>
    /\ kept_indices(CallLines, 0) = {1, 2}
    /\ call.out = <<"m", "o", "d", "a", "l", "\n", "a">>


(***************************************************************************)
(* Delta specification: a session at level 2 without a budget, over the    *)
(* snapshots of DeltaTexts.                                                *)
(***************************************************************************)
InitDelta ==
    /\ mem = EmptyMemory
    /\ call = NoCall
    /\ before = EmptyMemory
    /\ ToolIdle
    /\ ApiIdle

TakeDeltaSnapshot ==
    /\ \E text \in DeltaTexts, delta_mode \in DeltaModes :
          postprocess_snapshot_text(text, 2, 0, delta_mode)
    /\ before' = mem
    /\ UNCHANGED <<toolVars, apiVars>>

NextDelta == TakeDeltaSnapshot

SpecDelta == InitDelta /\ [][NextDelta]_vars

\* the filtered text of the last call, and its lines
CallFiltered == CompactionOf(call.raw, call.level, call.max_chars).filtered

NowLines == SplitLines(CallFiltered)

\* the filtered text the last call found in memory, and its lines
BeforeText == OrEmpty(before.filtered_text)

BeforeLines == SplitLines(BeforeText)

\* how many lines of xs are no line of ys
CountNotIn(xs, ys) == Cardinality({i \in 1..Len(xs) : xs[i] \notin SeqToSet(ys)})

CallChanged == CountNotIn(NowLines, BeforeLines) + CountNotIn(BeforeLines, NowLines)

CallTotal == Max(1, Len(BeforeLines) + Len(NowLines))

\* the last call ran in mode auto on a memory that held another filtered text
AutoOnChange ==
    /\ call.made
    /\ call.delta_mode = "auto"
    /\ before.filtered_hash # None
    /\ before.filtered_hash # Some(Sha256Hex(CallFiltered))

CallIsDiff == call.decision = "diff" /\ StartsWith(call.out, ChangedHeader)

CallIsFull == call.decision = "full" /\ call.out = CallMarked(CallFiltered)

\* the new text shares fewer than half of its lines with the previous one
SharesUnderHalf == 2 * (Len(NowLines) - CountNotIn(NowLines, BeforeLines)) < Len(NowLines)

\* the rule of line 252, on the counts of the last call
CallMeetsThresholds ==
    /\ CallChanged <= 60
    /\ CallChanged * 100 <= 12 * CallTotal
    /\ RatioAtLeast(BeforeText, CallFiltered, 85)

\* C13 as stated: in mode auto, with a previous filtered snapshot of another
\* hash, the output is a diff if and only if changed <= 60, changed / total
\* <= 0.12 and ratio >= 0.85, and the full filtered text otherwise; and a new
\* text that shares fewer than half of its lines with a 100-line previous
\* text always gets the full text.
C13_DiffIffSmallAndHalfNewIsFull ==
    AutoOnChange =>
        /\ CallIsDiff <=> CallMeetsThresholds
        /\ ~CallIsDiff => CallIsFull
        /\ (Len(BeforeLines) = 100 /\ SharesUnderHalf) => CallIsFull

\* C13, amended: the same threshold rule; and a new text of at least 30
\* lines that shares fewer than half of its lines with a 100-line previous
\* text always gets the full text, whatever the similarity ratio.
C13_DiffIffSmall ==
    AutoOnChange =>
        /\ CallIsDiff <=> CallMeetsThresholds
        /\ ~CallIsDiff => CallIsFull
        /\ (Len(BeforeLines) = 100 /\ Len(NowLines) >= 30 /\ SharesUnderHalf)
               => CallIsFull

C13_Witness ==
    /\ AutoOnChange
    /\ Len(BeforeLines) = 100
    /\ Len(NowLines) >= 30
    /\ SharesUnderHalf
    /\ CallIsFull

\* the indices at which the previous and the new text hold different lines
DifferingLines == {i \in 1..Len(NowLines) : BeforeLines[i] # NowLines[i]}

\* C14: in mode auto, when the previous filtered text has 100 lines and the
\* new one differs from it in exactly 3 lines, the output is a diff: the
\* header "[snapshot:delta] changed" with an "[added]" or a "[removed]"
\* block, and not the full text.
C14_ThreeChangedLinesGiveDiff ==
    ( /\ AutoOnChange
      /\ Len(BeforeLines) = 100
      /\ Len(NowLines) = 100
      /\ Cardinality(DifferingLines) = 3 )
    => /\ CallIsDiff
       /\ \/ AddedMarker \in SeqToSet(SplitLines(call.out))
          \/ RemovedMarker \in SeqToSet(SplitLines(call.out))

(***************************************************************************)
(* History specification: a session whose raw texts, levels, budgets and   *)
(* modes vary, and which records the memory each call found.               *)
(***************************************************************************)
HistLines == {<<"a">>, <<"a", "b">>}

HistTexts ==
    {JoinLines(ls) : ls \in TextsOver(HistLines, 2)} \cup {<<"a", "\r", "a">>}

HistLevels == {0, 2}

InitHistory ==
    /\ mem = EmptyMemory
    /\ call = NoCall
    /\ before = EmptyMemory
    /\ ToolIdle
    /\ ApiIdle

TakeHistorySnapshot ==
    /\ \E text \in HistTexts, level \in HistLevels, max_chars \in Budgets,
          delta_mode \in DeltaModes :
          postprocess_snapshot_text(text, level, max_chars, delta_mode)
    /\ before' = mem
    /\ UNCHANGED <<toolVars, apiVars>>

NextHistory == TakeHistorySnapshot

SpecHistory == InitHistory /\ [][NextHistory]_vars

\* a memory that holds the filtered text prev (None: no call yet) and
\* nothing of any raw text
FilteredOnly(prev) ==
    [text |-> None, hash |-> None, filtered_text |-> prev,
     filtered_hash |-> IF prev = None THEN None ELSE Some(Sha256Hex(prev[1]))]

\* the branch and the text the delta engine gives for a mode, the previous
\* and the new filtered text
DecisionFrom(delta_mode, prev, now) ==
    DeltaDecision(FilteredOnly(prev), now, delta_mode)

OutFrom(delta_mode, prev, now) ==
    DeltaOut(DecisionFrom(delta_mode, prev, now), FilteredOnly(prev), now)

\* C15 as stated: the branch taken and the output of a call are a function
\* of the delta mode, the new filtered text and the previous filtered text
\* alone, whatever the raw texts, levels and modes of the session were.
C15_OutputFromFilteredTexts ==
    call.made =>
        /\ call.decision = DecisionFrom(call.delta_mode, before.filtered_text, CallFiltered)
        /\ call.out = OutFrom(call.delta_mode, before.filtered_text, CallFiltered)

\* C15, amended: the branch taken is a function of the delta mode and the
\* two filtered texts alone; the output is a function of these and of
\* whether the new text was cut to the budget; the remembered raw text and
\* raw hash influence neither.
C15_OutputFromFilteredTextsAndCut ==
    call.made =>
        /\ call.decision = DecisionFrom(call.delta_mode, before.filtered_text, CallFiltered)
        /\ call.out = WithMarker(OutFrom(call.delta_mode, before.filtered_text, CallFiltered),
                                 CallOver)

\* a call that met another raw text in memory, yet the same filtered text
C15_Witness ==
    /\ call.made
    /\ before.text # None
    /\ before.text # Some(call.raw)
    /\ before.filtered_text = Some(CallFiltered)
    /\ call.decision = "nochange"
    /\ CallOver

(***************************************************************************)
(* Wrapper options of call_tool (browser_agent.py 292-326).  An option     *)
(* value is a JSON value as Python holds it: [t, n, s] with the type t,    *)
(* the number n (a float in tenths) and the characters s of a string.      *)
(***************************************************************************)
PyNone == [t |-> "none", n |-> 0, s |-> <<>>]
PyBool(b) == [t |-> "bool", n |-> IF b THEN 1 ELSE 0, s |-> <<>>]
PyInt(n) == [t |-> "int", n |-> n, s |-> <<>>]
PyFloat(tenths) == [t |-> "float", n |-> tenths, s |-> <<>>]
PyStr(s) == [t |-> "str", n |-> 0, s |-> s]
PyList(len) == [t |-> "list", n |-> len, s |-> <<>>]

\* the key is not in the dictionary
Absent == [t |-> "absent", n |-> 0, s |-> <<>>]

OptionKeys == {"_snapshot_level", "_compact", "_delta", "_max_chars"}

NoArgs == [k \in OptionKeys |-> Absent]

\* line 292: args if isinstance(args, dict) else {}
SafeArgs(args) == IF DOMAIN args = OptionKeys THEN args ELSE NoArgs

\* dict.pop(key, default)
DictPop(d, key, default) == IF d[key] = Absent THEN default ELSE d[key]

\* bool(v)
Truthy(v) ==
    CASE v.t = "none"  -> FALSE
      [] v.t = "bool"  -> v.n = 1
      [] v.t = "int"   -> v.n # 0
      [] v.t = "float" -> v.n # 0
      [] v.t = "str"   -> v.s # <<>>
      [] v.t = "list"  -> v.n # 0

Digits == <<"0", "1", "2", "3", "4", "5", "6", "7", "8", "9">>

IsDigit(c) == \E d \in 1..10 : Digits[d] = c

DigitValue(c) == (CHOOSE d \in 1..10 : Digits[d] = c) - 1

RECURSIVE DecimalValue(_)
DecimalValue(s) ==
    IF s = <<>> THEN 0
    ELSE 10 * DecimalValue(SubSeq(s, 1, Len(s) - 1)) + DigitValue(s[Len(s)])

AllDigits(s) == s # <<>> /\ \A i \in 1..Len(s) : IsDigit(s[i])

\* int(s) for a string: blanks around, a sign, decimal digits
IntOfDigits(s) ==
    IF AllDigits(s) THEN [ok |-> TRUE, n |-> DecimalValue(s)]
    ELSE IF s # <<>> /\ s[1] = "-" /\ AllDigits(Tail(s))
    THEN [ok |-> TRUE, n |-> 0 - DecimalValue(Tail(s))]
    ELSE IF s # <<>> /\ s[1] = "+" /\ AllDigits(Tail(s))
    THEN [ok |-> TRUE, n |-> DecimalValue(Tail(s))]
    ELSE [ok |-> FALSE, n |-> 0]

\* int(x) for a float in tenths: towards zero
TruncTenths(x) == IF x >= 0 THEN x \div 10 ELSE 0 - ((0 - x) \div 10)

\* int(v): the value, or ok = FALSE when it raises
IntOf(v) ==
    CASE v.t = "bool"  -> [ok |-> TRUE, n |-> v.n]
      [] v.t = "int"   -> [ok |-> TRUE, n |-> v.n]
      [] v.t = "float" -> [ok |-> TRUE, n |-> TruncTenths(v.n)]
      [] v.t = "str"   -> IntOfDigits(Strip(v.s))
      [] OTHER         -> [ok |-> FALSE, n |-> 0]

Clamp(n, lo, hi) == IF n < lo THEN lo ELSE IF n > hi THEN hi ELSE n

LevelFallback == 1
LevelMax == 2
MaxCharsLevel0 == 6000
MaxCharsLevel1 == 12000
MaxCharsLevel2 == 20000
MaxCharsFallback == 12000
MaxCharsLow == 2000
MaxCharsHigh == 80000

\* try: int(raw) / except Exception: fallback
IntOr(r, fallback) == IF r.ok THEN r.n ELSE fallback

\* lines 294-295 and 301-310
WrapperLevelOf(level_raw, compact) ==
    Clamp(IntOr(IntOf(IF level_raw = PyNone
                      THEN (IF compact THEN PyInt(1) ELSE PyInt(2))
                      ELSE level_raw),
                LevelFallback),
          0, LevelMax)

wrapper_level(safe_args) ==
    WrapperLevelOf(DictPop(safe_args, "_snapshot_level", PyNone),
                   Truthy(DictPop(safe_args, "_compact", PyBool(TRUE))))

\* a max_chars normalisation that does not clamp
WrapperMaxCharsNoClamp(raw, level) ==
    IntOr(IntOf(IF raw = PyNone
                THEN PyInt(IF level <= 0 THEN MaxCharsLevel0
                           ELSE IF level = 1 THEN MaxCharsLevel1
                           ELSE MaxCharsLevel2)
                ELSE raw),
          MaxCharsFallback)

\* lines 297 and 312-321
WrapperMaxCharsOf(raw, level) ==
    Clamp(IntOr(IntOf(IF raw = PyNone
                      THEN PyInt(IF level <= 0 THEN MaxCharsLevel0
                                 ELSE IF level = 1 THEN MaxCharsLevel1
                                 ELSE MaxCharsLevel2)
                      ELSE raw),
                MaxCharsFallback),
          MaxCharsLow, MaxCharsHigh)

wrapper_max_chars(safe_args) ==
    WrapperMaxCharsOf(DictPop(safe_args, "_max_chars", PyNone), wrapper_level(safe_args))

\* lines 296 and 323-326
delta_mode_of(safe_args) ==
    IF DictPop(safe_args, "_delta", PyNone) = PyNone THEN "auto"
    ELSE IF Truthy(DictPop(safe_args, "_delta", PyNone)) THEN "auto"
    ELSE "off"

(***************************************************************************)
(* BrowserAgent.call_tool (browser_agent.py 287-346) in two parts: what    *)
(* runs before "await tool.ainvoke" and what runs after it.                *)
(***************************************************************************)
\* the names of mcp_manager.tools once connected (mcp_client.py 143-156);
\* "click" is wrapped with a timeout, "take_snapshot" is not
ToolNames == {"take_snapshot", "click"}

\* names for which "not tool_name.strip()" holds (line 290)
BlankNames == {"", " "}

RequestedNames == ToolNames \cup BlankNames \cup {"no_such_tool"}

NotInitializedText == <<"Executor not initialized. Call setup() first.">>
MissingToolNameText == <<"Missing tool_name">>
UnknownToolText(name) == <<"Unknown tool: ", name>>

Raise(exc, text) == [kind |-> "raise", exc |-> exc, value |-> text]
Return(value) == [kind |-> "return", exc |-> "", value |-> value]

\* a prefix that does not look the name up in the registry
CallToolPrefixNoLookup(connected, name, args) ==
    IF ~connected
    THEN [kind |-> "raise", result |-> Raise("RuntimeError", NotInitializedText),
          level |-> 0, max_chars |-> 0, delta_mode |-> ""]
    ELSE IF name \in BlankNames
    THEN [kind |-> "raise", result |-> Raise("ValueError", MissingToolNameText),
          level |-> 0, max_chars |-> 0, delta_mode |-> ""]
    ELSE [kind |-> "invoke", result |-> Return(<<>>),
          level |-> wrapper_level(SafeArgs(args)),
          max_chars |-> wrapper_max_chars(SafeArgs(args)),
          delta_mode |-> delta_mode_of(SafeArgs(args))]

\* lines 288-334: the exception raised, or the options of the invocation
CallToolPrefix(connected, name, args) ==
    IF ~connected
    THEN [kind |-> "raise", result |-> Raise("RuntimeError", NotInitializedText),
          level |-> 0, max_chars |-> 0, delta_mode |-> ""]
    ELSE IF name \in BlankNames
    THEN [kind |-> "raise", result |-> Raise("ValueError", MissingToolNameText),
          level |-> 0, max_chars |-> 0, delta_mode |-> ""]
    ELSE IF name \notin ToolNames
    THEN [kind |-> "raise", result |-> Raise("ValueError", UnknownToolText(name)),
          level |-> 0, max_chars |-> 0, delta_mode |-> ""]
    ELSE [kind |-> "invoke", result |-> Return(<<>>),
          level |-> wrapper_level(SafeArgs(args)),
          max_chars |-> wrapper_max_chars(SafeArgs(args)),
          delta_mode |-> delta_mode_of(SafeArgs(args))]

\* the snapshots take_snapshot returns
SnapshotTexts == {<<"a">>, <<"a", "\n", "t", "a", "b">>}

\* what tool.ainvoke gives: a string, something that is no string, an
\* Exception, or for a wrapped tool the timeout message
ToolOutcomes(name) ==
    (IF name = "take_snapshot"
     THEN {[kind |-> "result", str |-> TRUE, value |-> t] : t \in SnapshotTexts}
          \cup {[kind |-> "result", str |-> FALSE, value |-> <<"content blocks">>]}
     ELSE {[kind |-> "result", str |-> TRUE, value |-> <<"operation result">>]})
    \cup {[kind |-> "raise", str |-> FALSE, value |-> <<"operation error">>]}
    \cup (IF name \in DOMAIN ToolTimeouts
          THEN {[kind |-> "timeout", str |-> TRUE,
                 value |-> TimeoutMessage([name |-> name, timeout |-> ToolTimeouts[name]])]}
          ELSE {})

\* a test that sends every returned string through the pipeline
RunsPipelineAnyString(name, outcome) ==
    outcome.kind \in {"result", "timeout"} /\ outcome.str

\* line 338
RunsPipeline(name, outcome) ==
    name = "take_snapshot" /\ outcome.kind = "result" /\ outcome.str

\* lines 336-346 when the pipeline does not run: the value returned or the
\* exception that passes through
PassThrough(outcome) ==
    IF outcome.kind = "raise" THEN Raise("Exception", outcome.value)
    ELSE Return(outcome.value)

NoResult == [kind |-> "none", exc |-> "", value |-> <<>>]

\* a call that has not been made
NoRequest(args) ==
    [pc |-> "new", route |-> "", tool |-> "", args |-> args, gen |-> 0,
     level |-> 0, max_chars |-> 0, delta_mode |-> "", invoked |-> FALSE,
     outcome |-> "", piped |-> FALSE, result |-> NoResult, resp |-> NoResult]

(***************************************************************************)
(* Agent specification: one caller that uses a BrowserAgent directly and   *)
(* awaits each call: the constructor, setup(), close() and call_tool().    *)
(***************************************************************************)
MaxAgents == 2
SnapshotsCap == 2

BrowserUrls == {"u1", "u2"}

\* the argument dictionaries of the caller
FewArgs ==
    { NoArgs,
      [NoArgs EXCEPT !["_delta"] = PyBool(FALSE)],
      [NoArgs EXCEPT !["_snapshot_level"] = PyInt(0)] }

Caller == 0

InitAgent ==
    /\ mem = EmptyMemory
    /\ call = NoCall
    /\ before = EmptyMemory
    /\ ToolIdle
    /\ agent = NoAgent
    /\ orphan = EmptyMemory
    /\ \E args \in FewArgs : reqs = (Caller :> NoRequest(args))
    /\ issued = <<>>
    /\ updated = <<>>

\* BrowserAgent(): lines 41-60
NewBrowserAgent ==
    /\ agent.gen < MaxAgents
    /\ agent' = [live |-> TRUE, connected |-> FALSE, setting |-> FALSE,
                 gen |-> agent.gen + 1, snapshots |-> 0, url |-> ""]
    /\ mem' = EmptyMemory
    /\ orphan' = mem
    /\ UNCHANGED <<call, before, reqs, issued, updated, toolVars>>

\* setup(browser_url), lines 264-271; connect() returns at once when connected
AgentSetup ==
    /\ agent.live
    /\ \E url \in BrowserUrls :
          agent' = [agent EXCEPT !.connected = TRUE, !.url = url, !.snapshots = 0]
    /\ UNCHANGED <<mem, call, before, orphan, reqs, issued, updated, toolVars>>

\* setup(browser_url) when connect() raises (mcp_client.py 120-143)
AgentSetupFails ==
    /\ agent.live
    /\ ~agent.connected
    /\ \E url \in BrowserUrls : agent' = [agent EXCEPT !.url = url]
    /\ UNCHANGED <<mem, call, before, orphan, reqs, issued, updated, toolVars>>

\* close(), lines 363-366
AgentClose ==
    /\ agent.live
    /\ agent' = [agent EXCEPT !.connected = FALSE, !.url = ""]
    /\ UNCHANGED <<mem, call, before, orphan, reqs, issued, updated, toolVars>>

\* the call record after call_tool(name, args) ended
Ended(req, name, p, invoked, outcome, piped, result) ==
    [req EXCEPT !.pc = "done", !.route = "direct", !.tool = name,
                !.gen = agent.gen,
                !.level = p.level, !.max_chars = p.max_chars,
                !.delta_mode = p.delta_mode,
                !.invoked = invoked, !.outcome = outcome, !.piped = piped,
                !.result = result,
                !.resp = result]

\* call_tool raises before any tool is invoked
CallToolRejected(r, name, p) ==
    /\ p.kind = "raise"
    /\ reqs' = [reqs EXCEPT ![r] = Ended(reqs[r], name, p, FALSE, "", FALSE, p.result)]
    /\ UNCHANGED <<mem, call, before, agent, orphan, issued, updated, toolVars>>

\* call_tool invokes the tool and passes on what it gives
CallToolPassed(r, name, p, outcome) ==
    /\ p.kind = "invoke"
    /\ ~RunsPipeline(name, outcome)
    /\ reqs' = [reqs EXCEPT ![r] = Ended(reqs[r], name, p, TRUE, outcome.kind,
                                           FALSE, PassThrough(outcome))]
    /\ UNCHANGED <<mem, call, before, agent, orphan, issued, updated, toolVars>>

\* call_tool invokes take_snapshot and runs the pipeline on its text
CallToolSnapshot(r, name, p, outcome) ==
    /\ p.kind = "invoke"
    /\ RunsPipeline(name, outcome)
    /\ postprocess_snapshot_text(outcome.value, p.level, p.max_chars, p.delta_mode)
    /\ before' = mem
    /\ reqs' = [reqs EXCEPT ![r] = Ended(reqs[r], name, p, TRUE, outcome.kind,
                                           TRUE, Return(call'.out))]
    /\ agent' = [agent EXCEPT !.snapshots = Min(SnapshotsCap, agent.snapshots + 1)]
    /\ UNCHANGED <<orphan, issued, updated, toolVars>>

\* await agent.call_tool(name, args), from the call to its end
AgentCallTool ==
    /\ agent.live
    /\ \E name \in RequestedNames :
       \E p \in {CallToolPrefix(agent.connected, name, reqs[Caller].args)} :
          \/ CallToolRejected(Caller, name, p)
          \/ \E outcome \in ToolOutcomes(name) :
                \/ CallToolPassed(Caller, name, p, outcome)
                \/ CallToolSnapshot(Caller, name, p, outcome)

NextAgent ==
    \/ NewBrowserAgent
    \/ AgentSetup
    \/ AgentSetupFails
    \/ AgentClose
    \/ AgentCallTool

SpecAgent == InitAgent /\ [][NextAgent]_vars


\* C17: snapshot memory is empty at the start of every session and is
\* discarded at teardown: after any sequence of setup(), take_snapshot calls
\* and close(), the first take_snapshot call that follows a setup() returns
\* the full filtered text, never the no-change sentinel and never a diff
\* against a snapshot taken before the preceding close().
C17_FirstSnapshotAfterSetupIsFull ==
    (call.made /\ agent.snapshots = 1)
        => /\ call.decision = "full"
           /\ call.out # CallMarked(NoChangeText)
           /\ ~StartsWith(call.out, ChangedHeader)


(***************************************************************************)
(* Options specification: call_tool on a connected agent, for each of the  *)
(* argument dictionaries a caller can pass.                                *)
(***************************************************************************)
LevelValues ==
    {Absent, PyNone, PyInt(-1), PyInt(3), PyStr(<<"1">>), PyStr(<<"x">>),
     PyFloat(19), PyList(0)}

CompactValues == {Absent, PyBool(FALSE)}

DeltaValues == {Absent, PyBool(FALSE), PyInt(0), PyStr(<<"f", "a", "l", "s", "e">>)}

MaxCharsValues ==
    {Absent, PyInt(0), PyInt(50000), PyInt(80001),
     PyStr(<<"9", "0", "0", "0">>), PyStr(<<"x">>)}

\* the dictionaries, and an args that is no dictionary
RichArgs ==
    { [k \in OptionKeys |->
          CASE k = "_snapshot_level" -> l
            [] k = "_compact" -> c
            [] k = "_delta" -> d
            [] k = "_max_chars" -> m] :
        l \in LevelValues, c \in CompactValues, d \in DeltaValues, m \in MaxCharsValues }
    \cup {PyNone}

InitArgs ==
    /\ mem = EmptyMemory
    /\ call = NoCall
    /\ before = EmptyMemory
    /\ ToolIdle
    /\ agent = [live |-> TRUE, connected |-> FALSE, setting |-> FALSE, gen |-> 1,
                snapshots |-> 0, url |-> ""]
    /\ orphan = EmptyMemory
    /\ \E args \in RichArgs : reqs = (Caller :> NoRequest(args))
    /\ issued = <<>>
    /\ updated = <<>>

NextArgs ==
    \/ AgentSetup
    \/ AgentCallTool

SpecArgs == InitArgs /\ [][NextArgs]_vars

\* the default budget of a level
TierOf(level) ==
    IF level = 0 THEN MaxCharsLevel0 ELSE IF level = 1 THEN MaxCharsLevel1 ELSE MaxCharsLevel2

\* the caller's value of an option
Given(key) ==
    IF DOMAIN reqs[Caller].args = OptionKeys THEN reqs[Caller].args[key] ELSE Absent

\* the failures of call_tool that do not come from the options
OtherFailures(name) ==
    {Raise("RuntimeError", NotInitializedText),
     Raise("ValueError", MissingToolNameText),
     Raise("ValueError", UnknownToolText(name)),
     Raise("Exception", <<"operation error">>)}

\* C18: for every argument dictionary passed to call_tool (options missing,
\* non-numeric, out of range or non-boolean) the options never make the call
\* fail, and the pipeline runs with a level in {0, 1, 2}, a max_chars in
\* [2000, 80000] that is 6000 / 12000 / 20000 for level 0 / 1 / 2 when the
\* caller gave none, and a delta mode that is "auto" by default and "off"
\* when the caller's delta flag is false.
C18_OptionsNormalised ==
    /\ (reqs[Caller].pc = "done" /\ reqs[Caller].result.kind = "raise")
          => reqs[Caller].result \in OtherFailures(reqs[Caller].tool)
    /\ reqs[Caller].piped
          => /\ reqs[Caller].result.kind = "return"
             /\ call.level = reqs[Caller].level
             /\ call.max_chars = reqs[Caller].max_chars
             /\ call.delta_mode = reqs[Caller].delta_mode
             /\ call.level \in {0, 1, 2}
             /\ call.max_chars \in MaxCharsLow..MaxCharsHigh
             /\ (Given("_max_chars") \in {Absent, PyNone})
                    => call.max_chars = TierOf(call.level)
             /\ call.delta_mode \in {"auto", "off"}
             /\ (Given("_delta") \in {Absent, PyNone}) => call.delta_mode = "auto"
             /\ (Given("_delta") = PyBool(FALSE)) => call.delta_mode = "off"

C18_Witness ==
    /\ reqs[Caller].piped
    /\ Given("_snapshot_level") = PyStr(<<"x">>)
    /\ Given("_max_chars") = PyInt(80001)
    /\ Given("_delta") = PyBool(FALSE)
    /\ call.level = 1 /\ call.max_chars = MaxCharsHigh /\ call.delta_mode = "off"


(***************************************************************************)
(* Routes specification (api/routes.py): requests to POST /call-tool and   *)
(* POST /apps/{app_id}/call-tool run as coroutines of one event loop and   *)
(* share the module-level agent_instance with /setup and /shutdown.  A     *)
(* handler runs without interruption up to "await tool.ainvoke" and again  *)
(* from the tool's answer to its response.  "mem" is the memory of the     *)
(* newest BrowserAgent object, "orphan" that of the object before it,      *)
(* which requests that started on it still hold.                           *)
(***************************************************************************)
MaxReqs == 2

ReqIds == 1..MaxReqs

Routes == {"call-tool", "app"}

RouteNames == {"take_snapshot", "click", "no_such_tool", " "}

AgentMissingText == <<"Agent not initialized. Call /setup first.">>
MissingToolText == <<"Missing 'tool'">>

\* raise HTTPException(status_code=400, detail=...)
HttpError(detail) ==
    [kind |-> "http", status |-> 400, success |-> FALSE, output |-> <<>>,
     error |-> detail]

\* a handler that lets every exception of call_tool pass
RouteResponseReraise(result) ==
    IF result.kind = "return"
    THEN [kind |-> "json", status |-> 200, success |-> TRUE,
          output |-> result.value, error |-> <<>>]
    ELSE [kind |-> "escaped", status |-> 500, success |-> FALSE,
          output |-> <<>>, error |-> result.value]

\* lines 365-369 and 446-450: return {"success": True, "output": output},
\* except Exception as e: return {"success": False, "output": "", "error": str(e)}
RouteResponse(result) ==
    IF result.kind = "return"
    THEN [kind |-> "json", status |-> 200, success |-> TRUE,
          output |-> result.value, error |-> <<>>]
    ELSE [kind |-> "json", status |-> 200, success |-> FALSE,
          output |-> <<>>, error |-> result.value]

InitRoutes ==
    /\ mem = EmptyMemory
    /\ call = NoCall
    /\ before = EmptyMemory
    /\ ToolIdle
    /\ agent = NoAgent
    /\ orphan = EmptyMemory
    /\ reqs = [r \in ReqIds |-> NoRequest(NoArgs)]
    /\ issued = <<>>
    /\ updated = <<>>

\* POST /setup with a configuration the agent does not have, lines 313-321:
\* the old agent is closed and a new BrowserAgent is made
RouteSetupBegin ==
    /\ ~agent.setting
    /\ agent.gen < MaxAgents
    /\ \E url \in BrowserUrls :
          /\ ~(agent.live /\ agent.connected /\ agent.url = url)
          /\ agent' = [live |-> TRUE, connected |-> FALSE, setting |-> TRUE,
                       gen |-> agent.gen + 1, snapshots |-> 0, url |-> url]
    /\ mem' = EmptyMemory
    /\ orphan' = mem
    /\ UNCHANGED <<call, before, reqs, issued, updated, toolVars>>

\* line 327: await agent_instance.setup(browser_url) returns
RouteSetupConnected ==
    /\ agent.setting
    /\ agent' = [agent EXCEPT !.connected = TRUE, !.setting = FALSE]
    /\ UNCHANGED <<mem, call, before, orphan, reqs, issued, updated, toolVars>>

\* line 327: setup raises; agent_instance stays the unconnected agent
RouteSetupFails ==
    /\ agent.setting
    /\ agent' = [agent EXCEPT !.setting = FALSE]
    /\ UNCHANGED <<mem, call, before, orphan, reqs, issued, updated, toolVars>>

\* POST /shutdown, lines 554-563
RouteShutdown ==
    /\ agent.live
    /\ ~agent.setting
    /\ agent' = [agent EXCEPT !.live = FALSE, !.connected = FALSE, !.url = ""]
    /\ UNCHANGED <<mem, call, before, orphan, reqs, issued, updated, toolVars>>

\* the request record when the handler answers
Answered(req, route, name, gen, p, invoked, outcome, piped, result, resp) ==
    [req EXCEPT !.pc = "done", !.route = route, !.tool = name, !.gen = gen,
                !.level = p.level, !.max_chars = p.max_chars,
                !.delta_mode = p.delta_mode,
                !.invoked = invoked, !.outcome = outcome, !.piped = piped,
                !.result = result, !.resp = resp]

\* the HTTP error raised before agent.call_tool: lines 437-438 on the app
\* route, get_agent (172-177) on both
RouteRejection(route, name) ==
    IF route = "app" /\ name \in BlankNames THEN HttpError(MissingToolText)
    ELSE IF ~agent.live THEN HttpError(AgentMissingText)
    ELSE NoResult

\* a request that ends with an HTTP error
RouteRejects(r, route, name) ==
    /\ RouteRejection(route, name) # NoResult
    /\ reqs' = [reqs EXCEPT ![r] =
                   Answered(reqs[r], route, name, 0, CallToolPrefix(FALSE, name, NoArgs),
                            FALSE, "", FALSE, NoResult, RouteRejection(route, name))]

\* a request whose call_tool raises before any tool is invoked
RouteCallRaises(r, route, name, p) ==
    /\ RouteRejection(route, name) = NoResult
    /\ p.kind = "raise"
    /\ reqs' = [reqs EXCEPT ![r] =
                   Answered(reqs[r], route, name, agent.gen, p, FALSE, "", FALSE,
                            p.result, RouteResponse(p.result))]

\* a request that reaches "await tool.ainvoke(safe_args)"
RouteCallAwaits(r, route, name, p) ==
    /\ RouteRejection(route, name) = NoResult
    /\ p.kind = "invoke"
    /\ reqs' = [reqs EXCEPT ![r] =
                   [reqs[r] EXCEPT !.pc = "awaiting", !.route = route, !.tool = name,
                                   !.gen = agent.gen, !.level = p.level,
                                   !.max_chars = p.max_chars,
                                   !.delta_mode = p.delta_mode, !.invoked = TRUE]]

\* a request arrives and runs to its first suspension or to its answer
RequestStart(r) ==
    /\ reqs[r].pc = "new"
    /\ \E route \in Routes, name \in RouteNames :
       \E p \in {CallToolPrefix(agent.connected, name, reqs[r].args)} :
          \/ RouteRejects(r, route, name)
          \/ RouteCallRaises(r, route, name, p)
          \/ RouteCallAwaits(r, route, name, p)
    /\ issued' = Append(issued, r)
    /\ UNCHANGED <<mem, call, before, agent, orphan, updated, toolVars>>

\* the options of an awaiting request
Options(req) ==
    [level |-> req.level, max_chars |-> req.max_chars, delta_mode |-> req.delta_mode]

\* the tool answers and the pipeline does not run
FinishPassed(r, outcome) ==
    /\ ~RunsPipeline(reqs[r].tool, outcome)
    /\ reqs' = [reqs EXCEPT ![r] =
                   Answered(reqs[r], reqs[r].route, reqs[r].tool, reqs[r].gen,
                            Options(reqs[r]), TRUE, outcome.kind, FALSE,
                            PassThrough(outcome), RouteResponse(PassThrough(outcome)))]
    /\ UNCHANGED <<mem, call, before, agent, orphan, updated>>

\* take_snapshot answers a request that holds the newest agent object
FinishSnapshot(r, outcome) ==
    /\ RunsPipeline(reqs[r].tool, outcome)
    /\ reqs[r].gen = agent.gen
    /\ postprocess_snapshot_text(outcome.value, reqs[r].level, reqs[r].max_chars,
                                 reqs[r].delta_mode)
    /\ before' = mem
    /\ reqs' = [reqs EXCEPT ![r] =
                   Answered(reqs[r], reqs[r].route, reqs[r].tool, reqs[r].gen,
                            Options(reqs[r]), TRUE, outcome.kind, TRUE,
                            Return(call'.out), RouteResponse(Return(call'.out)))]
    /\ agent' = [agent EXCEPT !.snapshots = Min(SnapshotsCap, agent.snapshots + 1)]
    /\ updated' = Append(updated, r)
    /\ UNCHANGED orphan

\* the pipeline on the memory of the agent object before the newest
OrphanPipeline(req, text) ==
    Pipeline(orphan, text, req.level, req.max_chars, req.delta_mode)

\* take_snapshot answers a request that holds the object before the newest
FinishOrphanSnapshot(r, outcome) ==
    /\ RunsPipeline(reqs[r].tool, outcome)
    /\ reqs[r].gen # agent.gen
    /\ orphan' = OrphanPipeline(reqs[r], outcome.value).mem
    /\ reqs' = [reqs EXCEPT ![r] =
                   Answered(reqs[r], reqs[r].route, reqs[r].tool, reqs[r].gen,
                            Options(reqs[r]), TRUE, outcome.kind, TRUE,
                            Return(OrphanPipeline(reqs[r], outcome.value).out),
                            RouteResponse(Return(OrphanPipeline(reqs[r], outcome.value).out)))]
    /\ updated' = Append(updated, r)
    /\ UNCHANGED <<mem, call, before, agent>>

\* the tool of an awaiting request answers and the handler runs to its end
RequestFinish(r) ==
    /\ reqs[r].pc = "awaiting"
    /\ \E outcome \in ToolOutcomes(reqs[r].tool) :
          \/ FinishPassed(r, outcome)
          \/ FinishSnapshot(r, outcome)
          \/ FinishOrphanSnapshot(r, outcome)
    /\ UNCHANGED <<issued, toolVars>>

NextRoutes ==
    \/ RouteSetupBegin
    \/ RouteSetupConnected
    \/ RouteSetupFails
    \/ RouteShutdown
    \/ \E r \in ReqIds : RequestStart(r)
    \/ \E r \in ReqIds : RequestFinish(r)

SpecRoutes == InitRoutes /\ [][NextRoutes]_vars


\* the place of request r in the order s
PlaceIn(s, r) == CHOOSE i \in 1..Len(s) : s[i] = r

\* the requests that hold one agent object and are awaiting their tool
AwaitingOn(gen) == {r \in ReqIds : reqs[r].pc = "awaiting" /\ reqs[r].gen = gen}

\* C16: for a given agent session at most one tool call is in flight at any
\* time: a second call_tool request that arrives while a first one is still
\* awaiting its tool does not start its tool invocation and does not touch
\* snapshot memory before the first has returned, so snapshot memory is
\* updated in the order in which the calls were issued.
C16_AtMostOneCallInFlight ==
    /\ \A gen \in 1..MaxAgents : Cardinality(AwaitingOn(gen)) <= 1
    /\ \A i, j \in 1..Len(updated) :
          (i < j /\ reqs[updated[i]].gen = reqs[updated[j]].gen)
              => PlaceIn(issued, updated[i]) < PlaceIn(issued, updated[j])


\* request r is answered in this step
AnsweredNow(r) == reqs[r].pc # "done" /\ reqs'[r].pc = "done"

\* request r arrives in this step with a name the registry of the connected
\* agent does not hold
UnknownNow(r) ==
    /\ reqs[r].pc = "new"
    /\ reqs'[r].pc # "new"
    /\ agent.live /\ agent.connected
    /\ reqs'[r].tool \notin ToolNames

\* C19: call_tool with a tool name that is not in the connected tool registry
\* reports a named failure (an error naming the unknown tool, "Missing ..."
\* for a blank name) to the caller, invokes no tool, and leaves snapshot
\* memory and connection state unchanged; it is never ignored and never
\* reported as success.
C19_UnknownToolIsNamedFailure ==
    [][\A r \in ReqIds :
          UnknownNow(r)
              => /\ AnsweredNow(r)
                 /\ ~reqs'[r].invoked
                 /\ ~reqs'[r].resp.success
                 /\ reqs'[r].resp.error # <<>>
                 /\ reqs'[r].tool \notin BlankNames
                       => reqs'[r].resp =
                              [kind |-> "json", status |-> 200, success |-> FALSE,
                               output |-> <<>>,
                               error |-> <<"Unknown tool: ", reqs'[r].tool>>]
                 /\ mem' = mem /\ orphan' = orphan /\ agent' = agent
                 /\ \A q \in ReqIds \ {r} : reqs'[q] = reqs[q]]_vars

C19_Witness ==
    \E r \in ReqIds :
        /\ reqs[r].pc = "done"
        /\ reqs[r].tool = "no_such_tool"
        /\ reqs[r].resp.error = <<"Unknown tool: ", "no_such_tool">>
        /\ reqs[r].result.exc = "ValueError"
        /\ agent.connected
        /\ mem.text # None


\* {"success": False, "output": "", "error": text}
StructuredFailure(text) ==
    [kind |-> "json", status |-> 200, success |-> FALSE, output |-> <<>>,
     error |-> text]

\* {"success": True, "output": text}
Success(text) ==
    [kind |-> "json", status |-> 200, success |-> TRUE, output |-> text,
     error |-> <<>>]

\* the requests answered so far, but for those the app route refused for
\* their blank tool name
AnsweredCalls ==
    {r \in ReqIds : reqs[r].pc = "done" /\ reqs[r].resp # HttpError(MissingToolText)}

\* what a timeout gives and what every other failure gives
TimeoutIsOnlyRecovery(r) ==
    /\ reqs[r].outcome = "timeout"
          => reqs[r].resp = Success(TimeoutMessage([name |-> reqs[r].tool,
                                                   timeout |-> ToolTimeouts[reqs[r].tool]]))
    /\ reqs[r].outcome = "raise" => reqs[r].resp = StructuredFailure(<<"operation error">>)
    /\ reqs[r].resp.success => reqs[r].outcome \in {"result", "timeout"}
    /\ (reqs[r].resp.kind = "json" /\ ~reqs[r].resp.success)
          => reqs[r].resp = StructuredFailure(reqs[r].result.value)

ArrivesNow(r) == reqs[r].pc = "new" /\ reqs'[r].pc # "new"

\* the answer to a request that finds no agent, or an unconnected one
AnswerWithoutExecutor(r) ==
    IF reqs'[r].route = "app" /\ reqs'[r].tool \in BlankNames
    THEN reqs'[r].resp = HttpError(MissingToolText)
    ELSE IF ~agent.live
    THEN reqs'[r].resp = HttpError(AgentMissingText)
    ELSE reqs'[r].resp = StructuredFailure(NotInitializedText)

MarkLines == {<<"heading">>, <<"modal">>, <<"nav">>, <<"tab">>}

Gaps == {1, MarkerWindow, MarkerWindow + 1, StrongWindow, StrongWindow + 1}

FirstMarks == {0, 1}

\* plain lines with the lines k1, k2, k3 at the indices a, a + d1, a + d1 + d2
PageOf(a, k1, d1, k2, d2, k3) ==
    [n \in 1..(a + d1 + d2 + 2) |->
        IF n = a + 1 THEN k1
        ELSE IF n = a + d1 + 1 THEN k2
        ELSE IF n = a + d1 + d2 + 1 THEN k3
        ELSE <<"a">>]

SectionPages ==
    {JoinLines(PageOf(a, k1, d1, k2, d2, k3)) :
        a \in FirstMarks, k1 \in MarkLines, d1 \in Gaps, k2 \in MarkLines,
        d2 \in Gaps, k3 \in MarkLines}
    \cup {<<>>}

InitSections ==
    /\ mem = EmptyMemory
    /\ call = NoCall
    /\ before = EmptyMemory
    /\ ToolIdle
    /\ ApiIdle

SectionPage ==
    /\ ~call.made
    /\ \E text \in SectionPages, level \in {0, 1} :
          postprocess_snapshot_text(text, level, 0, "auto")
    /\ UNCHANGED <<toolVars, before, apiVars>>

NextSections == SectionPage

SpecSections == InitSections /\ [][NextSections]_vars

\* the sections of the last call's lines
CallSections == Sections(SplitLines(call.raw))

\* the sections that hold line index i
SectionsHolding(secs, i) ==
    {si \in 1..Len(secs) : secs[si].start <= i /\ i < secs[si].end}

\* the sections secs partition the line indices 0 .. n - 1
IsPartition(secs, n) ==
    /\ Len(secs) >= 1
    /\ secs[1].start = 0
    /\ \A si \in 1..(Len(secs) - 1) :
          /\ secs[si].start < secs[si + 1].start
          /\ secs[si].end = secs[si + 1].start
    /\ secs[Len(secs)].end = n
    /\ \A i \in Range(0, n) : Cardinality(SectionsHolding(secs, i)) = 1

\* C21: for every input line sequence the sectioner's output is a partition:
\* section 0 starts at index 0, section starts are strictly increasing, each
\* section's end is the next section's start, the last section ends at the
\* number of lines, and so every line index belongs to exactly one section.
C21_SectionsPartition ==
    call.made => IsPartition(CallSections, Len(SplitLines(call.raw)))

SectionsWitness(secs) ==
    /\ Len(secs) = 4
    /\ secs[2].kind = "heading"
    /\ secs[3].end - secs[3].start = StrongWindow + 1
    /\ secs[4].kind = "navigation"

C21_Witness == call.made /\ SectionsWitness(CallSections)


\* the marker kind of every line, and the indices where sections start
KindsOf(lines) == [n \in 1..Len(lines) |-> section_marker_kind(lines[n])]

StartsOf(secs) == {secs[si].start : si \in 1..Len(secs)}

WeakAt(kinds, j) == j >= 1 /\ kinds[j + 1] # "" /\ kinds[j + 1] \notin StrongKinds

\* every strong line from index 1 on starts a section of its kind
StrongLinesOpen(kinds, secs) ==
    \A i \in 1..(Len(kinds) - 1) :
        kinds[i + 1] \in StrongKinds
            => \E si \in 1..Len(secs) :
                  secs[si].start = i /\ secs[si].kind = kinds[i + 1]

\* no weak marker starts a section within `window` lines after a line, from
\* index 1 on, of one of the kinds `after`
ClosedAfter(kinds, starts, after, window) ==
    \A i \in 1..(Len(kinds) - 1), j \in 1..(Len(kinds) - 1) :
        (kinds[i + 1] \in after /\ WeakAt(kinds, j) /\ i < j /\ j - i <= window)
            => j \notin starts

\* C22 as stated: every line at index >= 1 of kind heading or dialog opens a
\* new section carrying its kind, however close earlier markers are, and it
\* updates the last-strong-heading pointer: a weaker marker at most 20 lines
\* after a heading line or after a dialog line opens no section.
C22_StrongAnchorsCloseTwentyLines ==
    call.made =>
        /\ StrongLinesOpen(KindsOf(SplitLines(call.raw)), CallSections)
        /\ ClosedAfter(KindsOf(SplitLines(call.raw)), StartsOf(CallSections),
                       StrongKinds, StrongWindow)

\* a weak marker 7 to 20 lines after a dialog line that starts a section
OpensAfterDialog(kinds, starts) ==
    \E i \in 1..(Len(kinds) - 1), j \in 1..(Len(kinds) - 1) :
        /\ kinds[i + 1] = "dialog" /\ WeakAt(kinds, j)
        /\ j - i > MarkerWindow /\ j - i <= StrongWindow
        /\ j \in starts

\* C22, amended: every line at index >= 1 of kind heading or dialog opens a
\* new section carrying its kind, however close earlier markers are; only a
\* heading updates the last-strong-heading pointer, so a weaker marker opens
\* no section at most 20 lines after a heading line and at most 6 lines
\* after a dialog line.
C22_StrongAnchorsHeadingClosesTwenty ==
    call.made =>
        /\ StrongLinesOpen(KindsOf(SplitLines(call.raw)), CallSections)
        /\ ClosedAfter(KindsOf(SplitLines(call.raw)), StartsOf(CallSections),
                       {"heading"}, StrongWindow)
        /\ ClosedAfter(KindsOf(SplitLines(call.raw)), StartsOf(CallSections),
                       {"dialog"}, MarkerWindow)

C22_Witness ==
    /\ call.made
    /\ OpensAfterDialog(KindsOf(SplitLines(call.raw)), StartsOf(CallSections))
    /\ ~ClosedAfter(KindsOf(SplitLines(call.raw)), StartsOf(CallSections),
                    {"heading"}, StrongWindow + 1)


\* a line of one of the kinds `of`, from index `from` on, at most `window`
\* lines before line j
Within(kinds, of, from, j, window) ==
    \E i \in from..(j - 1) : kinds[i + 1] \in of /\ j - i <= window

AllKinds ==
    {"heading", "dialog", "header", "navigation", "main", "footer", "tablist",
     "toolbar"}

\* C23 as stated: a line at index >= 1 with a weaker marker kind opens no
\* section if a heading occurred within the last 20 lines or if any marker
\* line, strong or weak, whether or not it opened a section itself, occurred
\* within the last 6 lines; it opens a section exactly when neither holds.
WeakOpensIffNoMarkerNear(kinds, starts) ==
    \A j \in 1..(Len(kinds) - 1) :
        WeakAt(kinds, j)
            => (j \notin starts
                   <=> \/ Within(kinds, {"heading"}, 0, j, StrongWindow)
                       \/ Within(kinds, AllKinds, 0, j, MarkerWindow))

C23_WeakSuppressedNearAnyMarker ==
    call.made =>
        WeakOpensIffNoMarkerNear(KindsOf(SplitLines(call.raw)), StartsOf(CallSections))

\* a section start, from index 1 on, at most `window` lines before line j
StartWithin(starts, j, window) ==
    \E s \in starts : 1 <= s /\ s < j /\ j - s <= window

WeakOpensIffNoStartNear(kinds, starts) ==
    \A j \in 1..(Len(kinds) - 1) :
        WeakAt(kinds, j)
            => (j \notin starts
                   <=> \/ Within(kinds, {"heading"}, 1, j, StrongWindow)
                       \/ StartWithin(starts, j, MarkerWindow))

\* C23, amended: a line at index >= 1 with a weaker marker kind opens no
\* section if a heading line at index >= 1 occurred within the last 20 lines
\* or if a line at index >= 1 that opened a section occurred within the last
\* 6 lines; it opens a section exactly when neither holds.  Line 0 and
\* markers that were themselves suppressed do not count.
C23_WeakSuppressedNearSectionStart ==
    call.made =>
        WeakOpensIffNoStartNear(KindsOf(SplitLines(call.raw)), StartsOf(CallSections))

\* a weak marker opens a section 6 lines after a suppressed weak marker
OpensAfterSuppressed(kinds, starts) ==
    \E i \in 1..(Len(kinds) - 1), j \in 1..(Len(kinds) - 1) :
        /\ WeakAt(kinds, i) /\ i \notin starts
        /\ WeakAt(kinds, j) /\ j \in starts
        /\ j - i = MarkerWindow

C23_Witness ==
    /\ call.made
    /\ OpensAfterSuppressed(KindsOf(SplitLines(call.raw)), StartsOf(CallSections))


\* a section that holds an interactive line or is of kind dialog
Qualifies(lines, sec) ==
    \/ sec.kind = "dialog"
    \/ \E i \in Range(sec.start, sec.end) : is_interactive_line(At(lines, i))

\* the lines of the qualifying sections, in order
QualifyingLines(lines, secs) ==
    SelectSeq([n \in 1..Len(lines) |-> <<n - 1, lines[n]>>],
              LAMBDA p : \E si \in SectionsHolding(secs, p[1]) : Qualifies(lines, secs[si]))

\* the text of the second components of ps
TextOfPairs(ps) == Chars(JoinLines([n \in 1..Len(ps) |-> ps[n][2]]))

KeptIsQualifying(lines, secs, kept, filtered_text) ==
    /\ \A i \in Range(0, Len(lines)) :
          i \in kept <=> \E si \in SectionsHolding(secs, i) : Qualifies(lines, secs[si])
    /\ (\E si \in 1..Len(secs) : Qualifies(lines, secs[si]))
          => filtered_text = Some(TextOfPairs(QualifyingLines(lines, secs)))

\* C24: at level 1 the kept set is exactly the union of the full line ranges
\* of the sections that hold an interactive line or are of kind dialog:
\* every line of such a section is kept and no line of another section, its
\* title line included, provided at least one section qualifies.
C24_Level1KeepsQualifyingSections ==
    (call.made /\ call.level = 1)
        => KeptIsQualifying(SplitLines(call.raw), CallSections,
                            kept_indices(SplitLines(call.raw), 1), mem.filtered_text)

\* a dialog section without interactive lines is kept, a weak section dropped
KeepsAndDrops(lines, secs, kept) ==
    /\ \E si \in 1..Len(secs) :
          /\ secs[si].kind = "dialog"
          /\ \A i \in Range(secs[si].start, secs[si].end) : ~is_interactive_line(At(lines, i))
          /\ secs[si].end - secs[si].start > 1
          /\ Range(secs[si].start, secs[si].end) \subseteq kept
    /\ \E si \in 1..Len(secs) :
          /\ secs[si].kind = "navigation"
          /\ secs[si].start \notin kept

C24_Witness ==
    /\ call.made /\ call.level = 1
    /\ KeepsAndDrops(SplitLines(call.raw), CallSections, kept_indices(SplitLines(call.raw), 1))


(***************************************************************************)
(* Diff specification: _build_diff (browser_agent.py 216-232) applied to a *)
(* previous and a new text, among them texts with more lines than the cap. *)
(***************************************************************************)
DiffLines == {<<"a">>, <<"b">>, <<>>}

\* short texts, DiffCap + 1 equal lines, and DiffCap + 1 lines that all differ
DiffInputs ==
    {JoinLines(ls) : ls \in TextsOver(DiffLines, 3)}
    \cup {JoinLines(Repeat(<<"x">>, DiffCap + 1)),
          JoinLines([i \in 1..(DiffCap + 1) |-> <<DistinctChars(0, DiffCap + 1)[i]>>])}

InitDiff ==
    /\ mem = EmptyMemory
    /\ call = NoCall
    /\ before = EmptyMemory
    /\ ToolIdle
    /\ ApiIdle

\* _build_diff(prev_text, now_text)
BuildDiff ==
    /\ ~call.made
    /\ \E prev_text \in DiffInputs, now_text \in DiffInputs :
          /\ before' = [EmptyMemory EXCEPT !.filtered_text = Some(prev_text)]
          /\ mem' = [EmptyMemory EXCEPT !.filtered_text = Some(now_text)]
          /\ call' = [NoCall EXCEPT !.made = TRUE, !.raw = now_text,
                                    !.decision = "diff",
                                    !.out = build_diff(prev_text, now_text)]
    /\ UNCHANGED <<toolVars, apiVars>>

NextDiff == BuildDiff

SpecDiff == InitDiff /\ [][NextDiff]_vars

\* the indices of the lines of xs that are no line of ys, in order
AbsentAt(xs, ys) ==
    Sorted({n \in 1..Len(xs) : \A m \in 1..Len(ys) : ys[m] # xs[n]})

\* the first DiffCap of these lines
FirstAbsent(xs, at) == [k \in 1..Min(DiffCap, Len(at)) |-> xs[at[k]]]

\* the parts of a diff: the header, the added block, the removed block
DiffParts(added, removed) ==
    <<ChangedHeader>>
    \o (IF Len(added) > 0 THEN <<AddedMarker>> \o added ELSE <<>>)
    \o (IF Len(removed) > 0 THEN <<RemovedMarker>> \o removed ELSE <<>>)

DiffIs(out, prev_lines, now_lines) ==
    /\ out = JoinLines(DiffParts(FirstAbsent(now_lines, AbsentAt(now_lines, prev_lines)),
                                 FirstAbsent(prev_lines, AbsentAt(prev_lines, now_lines))))
    /\ (SeqToSet(prev_lines) = SeqToSet(now_lines)) => out = ChangedHeader

\* C25: a structural diff is the header "[snapshot:delta] changed", then,
\* only if there are any, "[added]" and at most the first 200 lines of the
\* new text that are no line of the old text, in new-text order, then, only
\* if there are any, "[removed]" and at most the first 200 lines of the old
\* text that are no line of the new text, in old-text order; a line of both
\* texts, wherever and however often it occurs, is listed under neither.
C25_DiffFormat ==
    call.made => DiffIs(call.out, SplitLines(OrEmpty(before.filtered_text)),
                        SplitLines(OrEmpty(mem.filtered_text)))

\* more than 200 lines were added and three removed
DiffWitness(out_lines, prev_lines, now_lines) ==
    /\ Len(now_lines) = DiffCap + 1
    /\ Len(prev_lines) = 3
    /\ Len(out_lines) = DiffCap + 6
    /\ out_lines[2] = AddedMarker
    /\ out_lines[DiffCap + 3] = RemovedMarker

C25_Witness ==
    /\ call.made
    /\ DiffWitness(SplitLines(call.out), SplitLines(OrEmpty(before.filtered_text)),
                   SplitLines(OrEmpty(mem.filtered_text)))


(***************************************************************************)
(* Classifier specification: _section_marker_kind (browser_agent.py 75-99) *)
(* on lines of characters, with the substring test of Python's "in".       *)
(***************************************************************************)
UpperLetters ==
    <<"A", "B", "C", "D", "E", "F", "G", "H", "I", "J", "K", "L", "M",
      "N", "O", "P", "Q", "R", "S", "T", "U", "V", "W", "X", "Y", "Z">>

LowerLetters ==
    <<"a", "b", "c", "d", "e", "f", "g", "h", "i", "j", "k", "l", "m",
      "n", "o", "p", "q", "r", "s", "t", "u", "v", "w", "x", "y", "z">>

\* str.lower() and str.upper() on a character
LowerChar(c) ==
    IF \E n \in 1..26 : UpperLetters[n] = c
    THEN LowerLetters[CHOOSE n \in 1..26 : UpperLetters[n] = c] ELSE c

UpperChar(c) ==
    IF \E n \in 1..26 : LowerLetters[n] = c
    THEN UpperLetters[CHOOSE n \in 1..26 : LowerLetters[n] = c] ELSE c

LowerChars(t) == [n \in 1..Len(t) |-> LowerChar(t[n])]

UpperChars(t) == [n \in 1..Len(t) |-> UpperChar(t[n])]

\* the characters of the keywords of lines 81-98
Letters(k) ==
    CASE k = "heading"     -> <<"h", "e", "a", "d", "i", "n", "g">>
      [] k = "dialog"      -> <<"d", "i", "a", "l", "o", "g">>
      [] k = "modal"       -> <<"m", "o", "d", "a", "l">>
      [] k = "header"      -> <<"h", "e", "a", "d", "e", "r">>
      [] k = "banner"      -> <<"b", "a", "n", "n", "e", "r">>
      [] k = "navigation"  -> <<"n", "a", "v", "i", "g", "a", "t", "i", "o", "n">>
      [] k = "nav"         -> <<"n", "a", "v">>
      [] k = "main"        -> <<"m", "a", "i", "n">>
      [] k = "footer"      -> <<"f", "o", "o", "t", "e", "r">>
      [] k = "contentinfo" -> <<"c", "o", "n", "t", "e", "n", "t", "i", "n", "f", "o">>
      [] k = "tablist"     -> <<"t", "a", "b", "l", "i", "s", "t">>
      [] k = "toolbar"     -> <<"t", "o", "o", "l", "b", "a", "r">>

\* w in t
IsSub(w, t) == \E n \in 0..(Len(t) - Len(w)) : SubSeq(t, n + 1, n + Len(w)) = w

\* a rule order that tests "main" before "navigation"
MarkerRulesMainFirst ==
    << <<"heading", {"heading"}>>,
       <<"dialog", {"dialog", "modal"}>>,
       <<"header", {"header", "banner"}>>,
       <<"main", {"main"}>>,
       <<"navigation", {"navigation", "nav"}>>,
       <<"footer", {"footer", "contentinfo"}>>,
       <<"tablist", {"tablist"}>>,
       <<"toolbar", {"toolbar"}>> >>

\* the rules of lines 81-98 in their order: the kind and its keywords
MarkerRules ==
    << <<"heading", {"heading"}>>,
       <<"dialog", {"dialog", "modal"}>>,
       <<"header", {"header", "banner"}>>,
       <<"navigation", {"navigation", "nav"}>>,
       <<"main", {"main"}>>,
       <<"footer", {"footer", "contentinfo"}>>,
       <<"tablist", {"tablist"}>>,
       <<"toolbar", {"toolbar"}>> >>

RuleMatches(rule, l) == \E k \in rule[2] : IsSub(Letters(k), l)

\* the chain of "if ... in l: return kind" from rule n on
RECURSIVE FirstMatch(_, _)
FirstMatch(l, n) ==
    IF n > Len(MarkerRules) THEN ""
    ELSE IF RuleMatches(MarkerRules[n], l) THEN MarkerRules[n][1]
    ELSE FirstMatch(l, n + 1)

\* lines 76-78 and the chain, for the stripped and lowered line l
MarkerKindOfChars(l) == IF l = <<>> THEN "" ELSE FirstMatch(l, 1)

\* _section_marker_kind(line) for a line of characters
marker_kind_of_line(line) == MarkerKindOfChars(LowerChars(Strip(line)))

\* the pieces a line is made of: keywords in lower, upper and mixed case,
\* words that hold a keyword, a word that holds none, and white space
Pieces ==
    {Letters(k) : k \in {"heading", "dialog", "modal", "header", "banner",
                         "navigation", "nav", "main", "footer", "contentinfo",
                         "tablist", "toolbar"}}
    \cup {UpperChars(Letters("heading")), UpperChars(Letters("footer")),
          <<"M", "a", "i", "n">>, <<"d", "o", "m", "a", "i", "n", "s">>,
          <<"x">>, <<" ">>, <<"\t">>}

MaxPieces == 3

\* the lines of up to MaxPieces pieces
RECURSIVE Concat(_)
Concat(ps) == IF ps = <<>> THEN <<>> ELSE Head(ps) \o Concat(Tail(ps))

InitClassify ==
    /\ mem = EmptyMemory
    /\ call = NoCall
    /\ before = EmptyMemory
    /\ ToolIdle
    /\ ApiIdle

\* _section_marker_kind(line)
Classify ==
    /\ ~call.made
    /\ \E ps \in TextsOver(Pieces, MaxPieces) :
          call' = [NoCall EXCEPT !.made = TRUE, !.raw = ps,
                                 !.decision = marker_kind_of_line(Concat(ps))]
    /\ UNCHANGED <<mem, before, toolVars, apiVars>>

NextClassify == Classify

SpecClassify == InitClassify /\ [][NextClassify]_vars

\* the priority order of the claim, and the place of a kind in it
KindOrder ==
    <<"heading", "dialog", "header", "navigation", "main", "footer", "tablist",
      "toolbar">>

KeywordsOf(kind) ==
    CASE kind = "heading" -> {"heading"}
      [] kind = "dialog" -> {"dialog", "modal"}
      [] kind = "header" -> {"header", "banner"}
      [] kind = "navigation" -> {"navigation", "nav"}
      [] kind = "main" -> {"main"}
      [] kind = "footer" -> {"footer", "contentinfo"}
      [] kind = "tablist" -> {"tablist"}
      [] kind = "toolbar" -> {"toolbar"}

\* the places in the order of the kinds of which a keyword occurs in l
PlacesIn(l) ==
    {n \in 1..Len(KindOrder) : \E k \in KeywordsOf(KindOrder[n]) : IsSub(Letters(k), l)}

Reversed(ps) == [n \in 1..Len(ps) |-> ps[Len(ps) + 1 - n]]

\* white space only
IsBlank(t) == \A n \in 1..Len(t) : t[n] \in Whitespace \cup LineSeps

HighestKind(kind, line, places) ==
    /\ (IsBlank(line) \/ places = {}) => kind = ""
    /\ places # {} => kind = KindOrder[SmallestOf(places)]

\* C26: the marker classifier returns the kind of the first rule that
\* matches in the order heading, dialog/modal, header/banner,
\* navigation/nav, main, footer/contentinfo, tablist, toolbar, and no marker
\* for an empty or whitespace-only line or when no keyword occurs: a line
\* with keywords of several kinds gets the kind highest in that order,
\* wherever the keywords stand in the line and whatever their letter case.
C26_HighestKindWins ==
    call.made =>
        /\ HighestKind(call.decision, Concat(call.raw), PlacesIn(LowerChars(Concat(call.raw))))
        /\ marker_kind_of_line(UpperChars(Concat(call.raw))) = call.decision
        /\ PlacesIn(LowerChars(Concat(Reversed(call.raw)))) = PlacesIn(LowerChars(Concat(call.raw)))
              => marker_kind_of_line(Concat(Reversed(call.raw))) = call.decision

C26_Witness ==
    /\ call.made
    /\ call.raw = <<Letters("toolbar"), <<"M", "a", "i", "n">>, Letters("nav")>>
    /\ call.decision = "navigation"


\* the four fields of memory after a pipeline call on text `raw` whose
\* filtered text is `filtered`
MemoryHolds(m, raw, filtered) ==
    /\ m.text = Some(raw)
    /\ m.hash = Some(Sha256Hex(Chars(raw)))
    /\ m.filtered_text = Some(filtered)
    /\ m.filtered_hash = Some(Sha256Hex(filtered))

\* a call_tool that did not end in the pipeline ended in this step
EndedUnpiped == reqs' # reqs /\ ~reqs'[Caller].piped

\* C27: snapshot memory changes only at the end of a successful compaction:
\* a call_tool leaves the four memory fields unchanged when the tool is not
\* take_snapshot, when take_snapshot returns something that is no string,
\* when the tool raises, and when the call is rejected (not connected,
\* missing or unknown name); a take_snapshot call that returns text updates
\* memory once, to that text; setup() and close() do not touch it.
C27_MemoryChangesOnlyInPipeline ==
    [][agent'.gen = agent.gen
          => /\ EndedUnpiped
                   => /\ mem' = mem
                      /\ call' = call
                      /\ \/ reqs'[Caller].tool # "take_snapshot"
                         \/ reqs'[Caller].outcome # "result"
                         \/ reqs'[Caller].result.value = <<"content blocks">>
             /\ (reqs' # reqs /\ reqs'[Caller].piped)
                   => /\ reqs'[Caller].tool = "take_snapshot"
                      /\ reqs'[Caller].outcome = "result"
                      /\ reqs'[Caller].result.value = call'.out
                      /\ call'.raw \in SnapshotTexts
                      /\ before' = mem
                      /\ MemoryHolds(mem', call'.raw,
                                     CompactionOf(call'.raw, call'.level,
                                                  call'.max_chars).filtered)
             /\ mem' # mem
                   => /\ reqs'[Caller].piped
                      /\ before' = mem
                      /\ mem'.text = Some(call'.raw)
             /\ reqs' = reqs => mem' = mem]_vars

C27_Witness ==
    /\ reqs[Caller].pc = "done"
    /\ reqs[Caller].tool = "click"
    /\ reqs[Caller].outcome = "raise"
    /\ mem.text = Some(<<"a">>)
    /\ agent.connected

(***************************************************************************)
(* Manager specification: one caller that uses a BrowserAgent and its      *)
(* MCPClientManager, awaiting each call: setup(), close() and call_tool(), *)
(* with connect() and disconnect() followed through the session context.   *)
(***************************************************************************)

\* mcp_client.py 89-94 and browser_agent.py 41-60: a new agent and its manager
NewManager ==
    [live |-> TRUE, connected |-> FALSE, setting |-> FALSE, gen |-> 1,
     snapshots |-> 0, url |-> "", client |-> FALSE, session_context |-> FALSE,
     session |-> FALSE, tools |-> {}]

\* how far connect() gets: npx is not found (line 120), entering the
\* session raises (line 140), loading the tools raises (line 143), or the
\* end of the function
ConnectSteps == {"no npx", "session raises", "load raises", "connected"}

\* what awaiting __aexit__ of the session context does (line 165): it
\* returns, raises an Exception, or raises an exception outside Exception
\* (asyncio.CancelledError, a BaseExceptionGroup)
ClosingOutcomes == {"closed", "Exception", "CancelledError"}

\* mcp_client.py 104-159: the manager after connect()
Connect(m, step) ==
    IF m.connected \/ step = "no npx" THEN m
    ELSE IF step = "session raises"
    THEN [m EXCEPT !.client = TRUE, !.session_context = TRUE]
    ELSE IF step = "load raises"
    THEN [m EXCEPT !.client = TRUE, !.session_context = TRUE, !.session = TRUE]
    ELSE [m EXCEPT !.client = TRUE, !.session_context = TRUE, !.session = TRUE,
                   !.tools = ToolNames, !.connected = TRUE]

\* connect() raises
ConnectRaises(m, step) == ~m.connected /\ step # "connected"

\* mcp_client.py 161-172: disconnect() raises what `except Exception` lets through
DisconnectRaises(m, closing) == m.session_context /\ closing = "CancelledError"

\* a disconnect() without the try block around __aexit__
DisconnectNoCatch(m, closing) ==
    IF m.session_context /\ closing # "closed" THEN m
    ELSE [m EXCEPT !.session_context = FALSE, !.session = FALSE,
                   !.client = FALSE, !.tools = {}, !.connected = FALSE]

\* mcp_client.py 161-172: the manager after disconnect()
Disconnect(m, closing) ==
    IF DisconnectRaises(m, closing) THEN m
    ELSE [m EXCEPT !.session_context = FALSE, !.session = FALSE,
                   !.client = FALSE, !.tools = {}, !.connected = FALSE]

\* the last lifecycle call of the caller that ended: kept in issued
Phase == issued[1]

InitManager ==
    /\ mem = EmptyMemory
    /\ call = NoCall
    /\ before = EmptyMemory
    /\ ToolIdle
    /\ agent = NewManager
    /\ orphan = EmptyMemory
    /\ \E args \in FewArgs : reqs = (Caller :> NoRequest(args))
    /\ issued = <<"fresh">>
    /\ updated = <<>>

\* browser_agent.py 264-271: setup(browser_url) returns
ManagerSetup ==
    /\ \E url \in BrowserUrls :
          agent' = [Connect(agent, "connected") EXCEPT !.url = url, !.snapshots = 0]
    /\ issued' = <<"set up">>
    /\ UNCHANGED <<mem, call, before, orphan, reqs, updated, toolVars>>

\* browser_agent.py 264-267: setup(browser_url) raises what connect() raises
ManagerSetupFails ==
    /\ \E url \in BrowserUrls, step \in ConnectSteps :
          /\ ConnectRaises(agent, step)
          /\ agent' = [Connect(agent, step) EXCEPT !.url = url]
    /\ UNCHANGED <<mem, call, before, orphan, reqs, issued, updated, toolVars>>

\* browser_agent.py 363-366: close() returns
ManagerClose ==
    /\ \E closing \in ClosingOutcomes :
          /\ ~DisconnectRaises(agent, closing)
          /\ agent' = [Disconnect(agent, closing) EXCEPT !.url = ""]
          /\ issued' = IF agent.session_context /\ closing = "Exception"
                       THEN <<"closed, session raised">>
                       ELSE <<"closed">>
    /\ UNCHANGED <<mem, call, before, orphan, reqs, updated, toolVars>>

\* browser_agent.py 365: close() raises what disconnect() raises
ManagerCloseRaises ==
    /\ \E closing \in ClosingOutcomes :
          /\ DisconnectRaises(agent, closing)
          /\ agent' = Disconnect(agent, closing)
    /\ issued' = <<"close raised">>
    /\ UNCHANGED <<mem, call, before, orphan, reqs, updated, toolVars>>

NextManager ==
    \/ ManagerSetup
    \/ ManagerSetupFails
    \/ ManagerClose
    \/ ManagerCloseRaises
    \/ AgentCallTool

SpecManager == InitManager /\ [][NextManager]_vars

\* every call_tool made now is rejected as not initialized
RejectsEveryCall ==
    \A name \in RequestedNames :
       CallToolPrefix(agent.connected, name, reqs[Caller].args)
          = [kind |-> "raise", result |-> Raise("RuntimeError", NotInitializedText),
             level |-> 0, max_chars |-> 0, delta_mode |-> ""]

Unusable == ~agent.connected /\ agent.tools = {} /\ RejectsEveryCall

\* a call_tool that ends in this step
CallEnded == reqs' # reqs

RejectedCall ==
    /\ ~reqs'[Caller].invoked
    /\ reqs'[Caller].result = Raise("RuntimeError", NotInitializedText)
    /\ mem' = mem

\* C28 (as stated): before the first successful setup(), and after every
\* close() until the next successful setup(), whatever closing the session
\* did, the manager is not connected, its tool list is empty and call_tool
\* fails with "Executor not initialized" without invoking a tool.
C28_DisconnectedAfterEveryClose ==
    Phase # "set up" => Unusable

\* C28 (amended): that holds before the first successful setup() and after
\* every close() that returned, also when closing the session raised an
\* Exception; when closing raises an exception outside Exception, close()
\* raises it and the manager stays as it was, connected with its tools if it
\* was connected; a tool is invoked only by a call made while the manager
\* is connected.
C28_DisconnectedAfterCloseReturns ==
    /\ [](/\ Phase \in {"fresh", "closed", "closed, session raised"} => Unusable
          /\ Phase = "close raised" => agent.session_context
          /\ Phase = "set up" => agent.connected /\ agent.tools = ToolNames
          /\ agent.connected <=> ~Unusable)
    /\ [][CallEnded
            => /\ reqs'[Caller].invoked => agent.connected /\ reqs'[Caller].tool \in agent.tools
               /\ ~agent.connected => RejectedCall
               /\ agent' = agent \/ reqs'[Caller].piped]_vars
    /\ [][/\ agent'.connected # agent.connected
              => Phase' \in {"set up", "closed", "closed, session raised"}
          /\ issued' # issued /\ Phase' = "close raised" => agent' = agent]_vars

\* closing the session raised an Exception and the call made after close()
\* was rejected
C28_Witness ==
    /\ Phase = "closed, session raised"
    /\ reqs[Caller].pc = "done"
    /\ reqs[Caller].tool = "click"
    /\ ~reqs[Caller].invoked
    /\ reqs[Caller].result = Raise("RuntimeError", NotInitializedText)
    /\ mem.text # None

(***************************************************************************)
(* Application specification: the module global agent_instance of          *)
(* routes.py, the name server.py imports from it, the BrowserAgent objects *)
(* made by POST /setup, and the handlers of /setup and /shutdown as        *)
(* coroutines that give way at their awaits: closing a session             *)
(* (mcp_client.py line 165) and entering one (line 140).                   *)
(***************************************************************************)
MaxObjects == 3

\* None, as a reference to a BrowserAgent
NoObject == 0

\* mcp_client.py 113-139: connect() up to "await __aenter__()"
ConnectBegins(m) ==
    IF m.connected THEN m
    ELSE [m EXCEPT !.client = TRUE, !.session_context = TRUE]

\* mcp_client.py 140-157: connect() from the session to "_connected = True"
ConnectEnds(m) ==
    [m EXCEPT !.session = TRUE, !.tools = ToolNames, !.connected = TRUE]

\* browser_agent.py 348-361: is_compatible_config
is_compatible_config(m, browser_url) ==
    m.connected /\ m.url = browser_url

\* routes.py line 25 and server.py line 12: agent_instance is None when
\* routes.py is loaded, and server.py binds its own name to that value
InitApp ==
    /\ mem = EmptyMemory
    /\ call = NoCall
    /\ before = EmptyMemory
    /\ ToolIdle
    /\ agent = [instance |-> NoObject, imported |-> NoObject, objects |-> <<>>]
    /\ orphan = EmptyMemory
    /\ reqs = [r \in ReqIds |->
                 [pc |-> "idle", route |-> "", url |-> "", obj |-> NoObject,
                  success |-> FALSE, tools |-> {}, error |-> ""]]
    /\ issued = <<"serving">>
    /\ updated = <<>>

Serving == issued = <<"serving">>

\* a handler that is not running
AtRest(req) == req.pc \in {"idle", "done"}

\* the object agent_instance refers to
Instance == agent.objects[agent.instance]

\* the handler answers with a JSON body
Responds(req, route, tools) ==
    [req EXCEPT !.pc = "done", !.route = route, !.obj = NoObject,
                !.success = TRUE, !.tools = tools, !.error = ""]

\* the handler ends with an exception
Fails(req, route, error) ==
    [req EXCEPT !.pc = "done", !.route = route, !.obj = NoObject,
                !.success = FALSE, !.tools = {}, !.error = error]

\* the handler waits in an await on object o
Waits(req, route, pc, url, o) ==
    [req EXCEPT !.pc = pc, !.route = route, !.url = url, !.obj = o,
                !.success = FALSE, !.tools = {}, !.error = ""]

\* browser_agent.py 363-366 after __aexit__ returned or raised an Exception
Closed(objects, o) ==
    [objects EXCEPT ![o] = [Disconnect(@, "closed") EXCEPT !.url = ""]]

\* routes.py 321-327: agent_instance = BrowserAgent(...) and setup() up to
\* the await in connect()
Created(objects, url) ==
    Append(objects, [ConnectBegins(NewManager) EXCEPT !.url = url])

\* routes.py 305-316: the configuration is the one of the connected agent
SetupCompatible(r) ==
    /\ Serving
    /\ AtRest(reqs[r])
    /\ agent.instance # NoObject
    /\ \E url \in BrowserUrls :
          /\ is_compatible_config(Instance, url)
          /\ reqs' = [reqs EXCEPT ![r] = Responds(@, "setup", Instance.tools)]
    /\ UNCHANGED <<mem, call, before, agent, orphan, issued, updated, toolVars>>

\* routes.py 318-319: the agent has a session context, so close() waits
\* for __aexit__
SetupCloses(r) ==
    /\ Serving
    /\ AtRest(reqs[r])
    /\ agent.instance # NoObject
    /\ Instance.session_context
    /\ \E url \in BrowserUrls :
          /\ ~is_compatible_config(Instance, url)
          /\ reqs' = [reqs EXCEPT ![r] = Waits(@, "setup", "closing", url, agent.instance)]
    /\ UNCHANGED <<mem, call, before, agent, orphan, issued, updated, toolVars>>

\* routes.py 318-327 without a wait in close(): there is no agent, or it has
\* no session context; the new agent is made and connect() waits
SetupCreates(r) ==
    /\ Serving
    /\ AtRest(reqs[r])
    /\ Len(agent.objects) < MaxObjects
    /\ agent.instance # NoObject => ~Instance.session_context
    /\ \E url \in BrowserUrls :
          /\ agent.instance # NoObject => ~is_compatible_config(Instance, url)
          /\ agent' = [agent EXCEPT
                          !.objects = Created(IF agent.instance = NoObject THEN @
                                              ELSE Closed(@, agent.instance), url),
                          !.instance = Len(agent.objects) + 1]
          /\ reqs' = [reqs EXCEPT ![r] = Waits(@, "setup", "connecting", url,
                                               Len(agent.objects) + 1)]
    /\ UNCHANGED <<mem, call, before, orphan, issued, updated, toolVars>>

\* routes.py 319-327: __aexit__ is over, close() ends, the new agent is made
\* and connect() waits
SetupClosed(r) ==
    /\ reqs[r].pc = "closing"
    /\ reqs[r].route = "setup"
    /\ Len(agent.objects) < MaxObjects
    /\ agent' = [agent EXCEPT
                    !.objects = Created(Closed(@, reqs[r].obj), reqs[r].url),
                    !.instance = Len(agent.objects) + 1]
    /\ reqs' = [reqs EXCEPT ![r] = Waits(@, "setup", "connecting", reqs[r].url,
                                         Len(agent.objects) + 1)]
    /\ UNCHANGED <<mem, call, before, orphan, issued, updated, toolVars>>

\* routes.py 327-340: connect() ends on the handler's agent; line 329 reads
\* agent_instance again
SetupConnected(r) ==
    /\ reqs[r].pc = "connecting"
    /\ agent' = [agent EXCEPT !.objects[reqs[r].obj] = ConnectEnds(@)]
    /\ reqs' = [reqs EXCEPT ![r] =
                   IF agent.instance = NoObject
                   THEN Fails(@, "setup", "AttributeError")
                   ELSE Responds(@, "setup", agent'.objects[agent.instance].tools)]
    /\ UNCHANGED <<mem, call, before, orphan, issued, updated, toolVars>>

\* routes.py 327: connect() raises in __aenter__ or in load_mcp_tools
SetupConnectFails(r) ==
    /\ reqs[r].pc = "connecting"
    /\ \E step \in {"session raises", "load raises"} :
          agent' = [agent EXCEPT !.objects[reqs[r].obj].session = (step = "load raises")]
    /\ reqs' = [reqs EXCEPT ![r] = Fails(@, "setup", "Exception")]
    /\ UNCHANGED <<mem, call, before, orphan, issued, updated, toolVars>>

\* routes.py 554-563 without a wait: there is no agent, or it has no
\* session context
ShutdownAtOnce(r) ==
    /\ Serving
    /\ AtRest(reqs[r])
    /\ agent.instance # NoObject => ~Instance.session_context
    /\ agent' = [agent EXCEPT
                    !.objects = IF agent.instance = NoObject THEN @
                                ELSE Closed(@, agent.instance),
                    !.instance = NoObject]
    /\ reqs' = [reqs EXCEPT ![r] = Responds(@, "shutdown", {})]
    /\ UNCHANGED <<mem, call, before, orphan, issued, updated, toolVars>>

\* routes.py 559-560: close() waits for __aexit__
ShutdownCloses(r) ==
    /\ Serving
    /\ AtRest(reqs[r])
    /\ agent.instance # NoObject
    /\ Instance.session_context
    /\ reqs' = [reqs EXCEPT ![r] = Waits(@, "shutdown", "closing", "", agent.instance)]
    /\ UNCHANGED <<mem, call, before, agent, orphan, issued, updated, toolVars>>

\* routes.py 560-563: close() ends and agent_instance = None
ShutdownClosed(r) ==
    /\ reqs[r].pc = "closing"
    /\ reqs[r].route = "shutdown"
    /\ agent' = [agent EXCEPT !.objects = Closed(@, reqs[r].obj),
                              !.instance = NoObject]
    /\ reqs' = [reqs EXCEPT ![r] = Responds(@, "shutdown", {})]
    /\ UNCHANGED <<mem, call, before, orphan, issued, updated, toolVars>>

\* server.py 19-23: the code after yield, run when every request is over;
\* agent_instance there is the name server.py imported
LifespanEnds ==
    /\ Serving
    /\ \A r \in ReqIds : AtRest(reqs[r])
    /\ agent' = [agent EXCEPT
                    !.objects = IF agent.imported = NoObject THEN @
                                ELSE Closed(@, agent.imported)]
    /\ issued' = <<"stopped">>
    /\ UNCHANGED <<mem, call, before, orphan, reqs, updated, toolVars>>

NextApp ==
    \/ \E r \in ReqIds : SetupCompatible(r)
    \/ \E r \in ReqIds : SetupCloses(r)
    \/ \E r \in ReqIds : SetupCreates(r)
    \/ \E r \in ReqIds : SetupClosed(r)
    \/ \E r \in ReqIds : SetupConnected(r)
    \/ \E r \in ReqIds : SetupConnectFails(r)
    \/ \E r \in ReqIds : ShutdownAtOnce(r)
    \/ \E r \in ReqIds : ShutdownCloses(r)
    \/ \E r \in ReqIds : ShutdownClosed(r)
    \/ LifespanEnds

SpecApp == InitApp /\ [][NextApp]_vars

\* the objects whose manager is connected
ConnectedObjects ==
    {o \in 1..Len(agent.objects) : agent.objects[o].connected}

\* C29: when the lifespan ends after a successful /setup that no /shutdown
\* followed, the agent made by /setup has been closed: it is not connected.
C29_LifespanClosesAgent ==
    issued = <<"stopped">> /\ agent.instance # NoObject
       => agent.instance \notin ConnectedObjects

\* every handler is over
AllFinished == \A r \in ReqIds : AtRest(reqs[r])

\* a /setup handler answers with success in this step
SetupSucceeds(r) ==
    /\ reqs'[r] # reqs[r]
    /\ reqs'[r].pc = "done"
    /\ reqs'[r].route = "setup"
    /\ reqs'[r].success

\* C30: under every interleaving of /setup and /shutdown handlers, once all
\* of them are over every connected BrowserAgent is the one agent_instance
\* refers to, and every /setup response that reports success lists the
\* tools of the agent that is current when it is given.
C30_NoOrphanedSession ==
    /\ [](AllFinished /\ Serving => ConnectedObjects \subseteq {agent.instance})
    /\ [][\A r \in ReqIds :
             SetupSucceeds(r)
                => /\ agent'.instance # NoObject
                   /\ reqs'[r].tools = agent'.objects[agent'.instance].tools]_vars

(***************************************************************************)
(* Budget specification: a session whose snapshots are longer than the     *)
(* budget, cut at a line end or inside a line, and which records the       *)
(* memory each call found.                                                 *)
(***************************************************************************)
BudgetLines == {<<"a">>, <<"a", "b">>, <<"c">>}

\* snapshots of two lines: the budgets cut them after the first line or
\* inside a line
BudgetTexts ==
    {JoinLines(<<first, second>>) : first \in {<<"a">>, <<"a", "b">>},
                                    second \in BudgetLines}

\* the max_chars values tried; 0 is "no budget" (line 208)
CutBudgets == {0, 2, 3}

InitBudget ==
    /\ mem = EmptyMemory
    /\ call = NoCall
    /\ before = EmptyMemory
    /\ ToolIdle
    /\ ApiIdle

TakeBudgetSnapshot ==
    /\ \E text \in BudgetTexts, level \in HistLevels, max_chars \in CutBudgets,
          delta_mode \in DeltaModes :
          postprocess_snapshot_text(text, level, max_chars, delta_mode)
    /\ before' = mem
    /\ UNCHANGED <<toolVars, apiVars>>

NextBudget == TakeBudgetSnapshot

SpecBudget == InitBudget /\ [][NextBudget]_vars

\* the lines a diff output lists: all but its header, its two section
\* marks and the truncation marker
MentionedLines(out) ==
    SeqToSet(SplitLines(out))
       \ {ChangedHeader, AddedMarker, RemovedMarker, TruncationLine}

\* the lines of the text found in memory and of the new text, each as cut
\* to the budget of its own call
LinesWithinBudgets ==
    SeqToSet(SplitLines(OrEmpty(before.filtered_text)))
       \cup SeqToSet(SplitLines(CallCut(CallSelected)))

\* the two calls of this step had the same budget, both selected texts
\* were longer and they agree up to the budget
AgreeWithinBudget ==
    /\ call.made
    /\ call'.max_chars > 0
    /\ call.max_chars = call'.max_chars
    /\ Len(Selected(call.raw, call.level)) > call.max_chars
    /\ Len(Selected(call'.raw, call'.level)) > call'.max_chars
    /\ Take(Selected(call.raw, call.level), call.max_chars)
          = Take(Selected(call'.raw, call'.level), call'.max_chars)

\* C31 (as stated): when the text found in memory and the new selected
\* text agree up to max_chars and the new one is longer, a call in mode on
\* or auto returns the no-change sentinel and the truncation marker; and
\* every line a diff lists lies within the first max_chars characters, the
\* budget of the call that makes the diff, of the remembered or of the new
\* text.
C31_NoLineBeyondMaxChars ==
    /\ call.made /\ call.delta_mode \in {"on", "auto"} /\ CallOver
          /\ before.filtered_text = Some(CallCut(CallSelected))
       => call.out = NoChangeText \o TruncationSuffix
    /\ call.decision = "diff"
       => MentionedLines(call.out)
             \subseteq SeqToSet(SplitLines(CallCut(OrEmpty(before.filtered_text))))
                          \cup SeqToSet(SplitLines(CallCut(CallSelected)))

\* C31 (amended): the text is cut to max_chars before it is hashed, compared and
\* remembered: memory holds the cut text and its hash; when two consecutive
\* calls with the same budget select texts that are both longer than the
\* budget and agree on their first max_chars characters, the second call in
\* mode on or auto returns the no-change sentinel followed by the truncation
\* marker; and every line a diff lists is a line of the remembered text or
\* of the new text as cut to the budget of its own call, never a line that
\* lies beyond it.
C31_TruncationBeforeDelta ==
    /\ [][/\ AgreeWithinBudget /\ call'.delta_mode \in {"on", "auto"}
             => call'.out = NoChangeText \o TruncationSuffix
          /\ mem'.filtered_text
                = Some(Take(Selected(call'.raw, call'.level),
                            IF call'.max_chars > 0 THEN call'.max_chars
                            ELSE Len(Selected(call'.raw, call'.level))))
          /\ mem'.filtered_hash = Some(Sha256Hex(mem'.filtered_text[1]))
          /\ before' = mem]_vars
    /\ [](/\ call.made /\ call.delta_mode \in {"on", "auto"} /\ CallOver
                /\ before.filtered_text = Some(CallCut(CallSelected))
             => call.out = NoChangeText \o TruncationSuffix
          /\ call.decision = "diff" => MentionedLines(call.out) \subseteq LinesWithinBudgets)

\* "a", "ab" was cut to its first two characters, then "a", "c" was: no
\* change is reported
C31_Witness ==
    /\ before.text = Some(<<"a", "\n", "a", "b">>)
    /\ before.filtered_text = Some(<<"a", "\n">>)
    /\ call.raw = <<"a", "\n", "c">>
    /\ call.max_chars = 2
    /\ call.delta_mode = "auto"
    /\ call.out = NoChangeText \o TruncationSuffix

\* lines 201-204 as a set of indices: the kept set, or every index when
\* nothing was kept
Rendered(kept, n) == IF kept # {} THEN kept ELSE Range(0, n)

RenderedAt(lines, level) == Rendered(kept_indices(lines, level), Len(lines))

LevelsNested(r0, r1, r2) == r0 \subseteq r1 /\ r1 \subseteq r2

\* every index of r0 is in r1 or next to an index of r1
WithinOneOf(r0, r1) == \A i \in r0 : i \in r1 \/ i + 1 \in r1 \/ i - 1 \in r1

LevelsNearlyNested(k0, k1, r0, r1, r2) ==
    /\ r0 \subseteq r2
    /\ r1 \subseteq r2
    /\ k0 = {} <=> k1 = {}
    /\ k1 \subseteq r1
    /\ WithinOneOf(r0, r1)

\* C32 (as stated): for every input the indices rendered at level 0 are a
\* subset of those rendered at level 1, which are a subset of those rendered
\* at level 2, the fallback to all lines applied at each level.
C32_LevelsMonotone ==
    call.made
       => LevelsNested(RenderedAt(SplitLines(call.raw), 0),
                       RenderedAt(SplitLines(call.raw), 1),
                       RenderedAt(SplitLines(call.raw), 2))

\* C32 (amended): the indices rendered at level 0 and at level 1 are
\* subsets of those rendered at level 2; the kept set is empty at level 0
\* exactly when it is empty at level 1; and every index rendered at level 0
\* is rendered at level 1 or is next to an index rendered at level 1.
C32_LevelsMonotoneUpToContext ==
    call.made
       => LevelsNearlyNested(kept_indices(SplitLines(call.raw), 0),
                             kept_indices(SplitLines(call.raw), 1),
                             RenderedAt(SplitLines(call.raw), 0),
                             RenderedAt(SplitLines(call.raw), 1),
                             RenderedAt(SplitLines(call.raw), 2))

\* level 0 renders a line that level 1 drops, and more lines than level 1
OutsideLevel1(r0, r1) ==
    /\ r0 \ r1 # {}
    /\ Cardinality(r0) > Cardinality(r1)

C32_Witness ==
    /\ call.made
    /\ call.level = 0
    /\ OutsideLevel1(RenderedAt(SplitLines(call.raw), 0), RenderedAt(SplitLines(call.raw), 1))

\* the page with a plain line in place of line 0
PlainFirst(lines) == IF lines = <<>> THEN lines ELSE <<<<"a">>>> \o Tail(lines)

\* the first line of index 1 or more that is a marker line, if any
FirstMarkerAfterZero(kinds) ==
    {j \in 1..(Len(kinds) - 1) :
        /\ kinds[j + 1] # ""
        /\ \A k \in 1..(j - 1) : kinds[k + 1] = ""}

\* what the sectioner and the selector make of a page does not depend on
\* line 0 being a marker line
FirstLineUnclassified(lines, kinds, secs, plain_secs, level, kept, filtered_text) ==
    /\ secs[1].start = 0
    /\ secs[1].title = <<>>
    /\ secs[1].kind = ""
    /\ \A si \in 1..Len(secs) : secs[si].kind = "dialog" => secs[si].start > 0
    /\ lines # <<>>
          => SectionStep(At(lines, 0), kinds[1], 0, SectionerInit) = SectionerInit
    /\ secs = plain_secs
    /\ FirstMarkerAfterZero(kinds) \subseteq StartsOf(secs)
    /\ (lines # <<>> /\ ~is_interactive_line(At(lines, 0)))
          => /\ kept = kept_indices(PlainFirst(lines), level)
             /\ filtered_text = Some(Chars(JoinLines(PickLines(lines, kept))))

\* C33: line 0 is never classified: section 0 has an empty title and an
\* empty kind and line 0 sets neither pointer, also when line 0 is a heading
\* or a dialog marker; so no dialog section starts at 0, the first marker
\* line after line 0 opens a section however near it is, the sections are
\* those of the page with a plain first line, and, line 0 not being
\* interactive, so are the lines kept at levels 0 and 1.
C33_FirstLineNeverClassified ==
    call.made
       => FirstLineUnclassified(SplitLines(call.raw), KindsOf(SplitLines(call.raw)),
                                CallSections,
                                Sections(PlainFirst(SplitLines(call.raw))),
                                call.level,
                                kept_indices(SplitLines(call.raw), call.level),
                                mem.filtered_text)

\* line 0 is a dialog marker, a navigation marker within six lines of it
\* opened a section, and at level 0 the line after the dialog marker is
\* dropped
DialogFirstLine(lines, secs, kept) ==
    /\ lines # <<>>
    /\ At(lines, 0) = <<"modal">>
    /\ Len(secs) >= 2
    /\ secs[2].kind = "navigation"
    /\ secs[2].start > 1
    /\ secs[2].start <= MarkerWindow
    /\ kept # {}
    /\ 1 \notin kept

C33_Witness ==
    /\ call.made
    /\ call.level = 0
    /\ DialogFirstLine(SplitLines(call.raw), CallSections,
                       kept_indices(SplitLines(call.raw), 0))

====
